---- MODULE Spec2Model ----
(***************************************************************************)
(* A model of the env-mask extension: the line parser (EnvFileParser), the *)
(* configuration reader (MaskingConfig) and the masking controller         *)
(* (EnvFileMasker) with its per-document reveal map and auto-hide timers.  *)
(*                                                                         *)
(* Strings are sequences of one-character strings.  Line and column        *)
(* numbers are zero-based as in the source; sequences are one-based.       *)
(*                                                                         *)
(* The host is modelled with one editor per open document: the editor      *)
(* exists from the moment the document is shown until the document is      *)
(* closed.  Decorations set on an editor stay until they are set again or  *)
(* the editor goes away.                                                   *)
(***************************************************************************)
EXTENDS Integers, Sequences, FiniteSets, TLC

VARIABLES
  config,         \* MaskingConfig.config: the snapshot taken by the last (re)load
  enabledPatternCache, \* MaskingConfig.enabledPatternCache: the patterns compiled
  blacklistCache, \* MaskingConfig.blacklistCache: the patterns compiled
  text,           \* host: the lines of each document
  docState,       \* host: "closed", or "visible" (open, with an editor shown)
  revealedValues, \* EnvFileMasker.revealedValues: uri -> (line -> RevealedValue)
  timers,         \* the live setTimeout handles created by toggleValueVisibility
  enabled,        \* EnvFileMasker.enabled
  decorations,    \* host: what each editor currently shows (mask and reveal lists)
  disposed,       \* EnvFileMasker.dispose() has run
  last            \* history: what the last step did (see Did)

vars == <<config, enabledPatternCache, blacklistCache, text, docState,
          revealedValues, timers, enabled, decorations, disposed,
          last>>

----------------------------------------------------------------------------
(* Bounds of the model.                                                    *)

MaxTimers == 1
MaxLines == 3
MaxLineLength == 4

----------------------------------------------------------------------------
(* String helpers (JavaScript String methods on sequences of characters).  *)

Letters ==
  {"a","b","c","d","e","f","g","h","i","j","k","l","m","n","o","p","q","r",
   "s","t","u","v","w","x","y","z","A","B","C","D","E","F","G","H","I","J",
   "K","L","M","N","O","P","Q","R","S","T","U","V","W","X","Y","Z"}

Digits == {"0","1","2","3","4","5","6","7","8","9"}

WhiteSpace == {" ", "\t"}

RECURSIVE trimStart(_)
trimStart(s) ==
  IF s # <<>> /\ Head(s) \in WhiteSpace THEN trimStart(Tail(s)) ELSE s

RECURSIVE trimEnd(_)
trimEnd(s) ==
  IF s # <<>> /\ s[Len(s)] \in WhiteSpace
    THEN trimEnd(SubSeq(s, 1, Len(s) - 1))
    ELSE s

trim(s) == trimEnd(trimStart(s))

startsWith(s, p) == Len(p) <= Len(s) /\ SubSeq(s, 1, Len(p)) = p

endsWith(s, p) ==
  Len(p) <= Len(s) /\ SubSeq(s, Len(s) - Len(p) + 1, Len(s)) = p

\* s.substring(a, b) and s.substring(a), zero-based, end exclusive
substring(s, a, b) == SubSeq(s, a + 1, b)

substringFrom(s, a) == SubSeq(s, a + 1, Len(s))

\* s.indexOf(sub, from): the first zero-based position >= from, or -1
indexOfFrom(s, sub, from) ==
  LET f == IF from < 0 THEN 0 ELSE from
      hits == {i \in f .. (Len(s) - Len(sub)) :
                 SubSeq(s, i + 1, i + Len(sub)) = sub}
  IN IF hits = {} THEN -1
     ELSE CHOOSE i \in hits : \A j \in hits : i <= j

indexOf(s, sub) == indexOfFrom(s, sub, 0)

includes(s, c) == \E i \in 1..Len(s) : s[i] = c

\* ch.repeat(n) for a string ch
RECURSIVE repeat(_, _)
repeat(ch, n) == IF n <= 0 THEN <<>> ELSE ch \o repeat(ch, n - 1)

\* s.replace(/c/g, by): every occurrence of the character c replaced by the string by
RECURSIVE replaceAll(_, _, _)
replaceAll(s, c, by) ==
  IF s = <<>> THEN <<>>
  ELSE (IF Head(s) = c THEN by ELSE <<Head(s)>>) \o replaceAll(Tail(s), c, by)

\* Map helpers
MapDelete(m, k) == [x \in (DOMAIN m) \ {k} |-> m[x]]

MapSet(m, k, v) == [x \in (DOMAIN m) \cup {k} |-> IF x = k THEN v ELSE m[x]]

EmptyMap == [x \in {} |-> 0]

----------------------------------------------------------------------------
(* EnvFileParser                                                           *)

isValidKey(key) ==
  /\ Len(key) >= 1
  /\ key[1] \in Letters \cup {"_"}
  /\ \A i \in 2..Len(key) : key[i] \in Letters \cup Digits \cup {"_"}

\* parseLine without the validation of the key
parseLineAnyKey(lineText, lineNumber) ==
  LET t == trim(lineText)
      equalsIndex == indexOf(t, <<"=">>)
      key == trim(substring(t, 0, equalsIndex))
      value == substringFrom(t, equalsIndex + 1)
      keyStartIndex == indexOf(lineText, key)
      equalsInOriginal == indexOfFrom(lineText, <<"=">>, keyStartIndex)
      valueStartIndex == equalsInOriginal + 1
      valueEndIndex == valueStartIndex + Len(value)
  IN IF t = <<>> \/ startsWith(t, <<"#">>) \/ startsWith(t, <<"/", "/">>)
       THEN <<>>
     ELSE IF startsWith(t, <<"e","x","p","o","r","t"," ">>) THEN <<>>
     ELSE IF equalsIndex = -1 THEN <<>>
     ELSE IF Len(value) = 0 THEN <<>>
     ELSE << [line |-> lineNumber, key |-> key, value |-> value,
              keyStart |-> keyStartIndex, keyEnd |-> keyStartIndex + Len(key),
              valueStart |-> valueStartIndex, valueEnd |-> valueEndIndex] >>

\* parseLine without the rejection of an empty value
parseLineAnyValue(lineText, lineNumber) ==
  LET t == trim(lineText)
      equalsIndex == indexOf(t, <<"=">>)
      key == trim(substring(t, 0, equalsIndex))
      value == substringFrom(t, equalsIndex + 1)
      keyStartIndex == indexOf(lineText, key)
      equalsInOriginal == indexOfFrom(lineText, <<"=">>, keyStartIndex)
      valueStartIndex == equalsInOriginal + 1
      valueEndIndex == valueStartIndex + Len(value)
  IN IF t = <<>> \/ startsWith(t, <<"#">>) \/ startsWith(t, <<"/", "/">>)
       THEN <<>>
     ELSE IF startsWith(t, <<"e","x","p","o","r","t"," ">>) THEN <<>>
     ELSE IF equalsIndex = -1 THEN <<>>
     ELSE IF ~isValidKey(key) THEN <<>>
     ELSE << [line |-> lineNumber, key |-> key, value |-> value,
              keyStart |-> keyStartIndex, keyEnd |-> keyStartIndex + Len(key),
              valueStart |-> valueStartIndex, valueEnd |-> valueEndIndex] >>

\* parseLine that reports the positions in the trimmed text
parseLineTrimmedSpans(lineText, lineNumber) ==
  LET t == trim(lineText)
      equalsIndex == indexOf(t, <<"=">>)
      key == trim(substring(t, 0, equalsIndex))
      value == substringFrom(t, equalsIndex + 1)
      keyStartIndex == indexOf(t, key)
      valueStartIndex == equalsIndex + 1
      valueEndIndex == valueStartIndex + Len(value)
  IN IF t = <<>> \/ startsWith(t, <<"#">>) \/ startsWith(t, <<"/", "/">>)
       THEN <<>>
     ELSE IF startsWith(t, <<"e","x","p","o","r","t"," ">>) THEN <<>>
     ELSE IF equalsIndex = -1 THEN <<>>
     ELSE IF ~isValidKey(key) THEN <<>>
     ELSE IF Len(value) = 0 THEN <<>>
     ELSE << [line |-> lineNumber, key |-> key, value |-> value,
              keyStart |-> keyStartIndex, keyEnd |-> keyStartIndex + Len(key),
              valueStart |-> valueStartIndex, valueEnd |-> valueEndIndex] >>

\* The last place where sub occurs in s, -1 when it does not
lastIndexOf(s, sub) ==
  LET places == { i \in 0..(Len(s) - Len(sub)) :
                    SubSeq(s, i + 1, i + Len(sub)) = sub }
  IN IF places = {} THEN -1
     ELSE CHOOSE i \in places : \A j \in places : j <= i

\* parseLine that locates the key at its last occurrence in the line
parseLineLastOccurrence(lineText, lineNumber) ==
  LET t == trim(lineText)
      equalsIndex == indexOf(t, <<"=">>)
      key == trim(substring(t, 0, equalsIndex))
      value == substringFrom(t, equalsIndex + 1)
      keyStartIndex == lastIndexOf(lineText, key)
      equalsInOriginal == indexOfFrom(lineText, <<"=">>, keyStartIndex)
      valueStartIndex == equalsInOriginal + 1
      valueEndIndex == valueStartIndex + Len(value)
  IN IF t = <<>> \/ startsWith(t, <<"#">>) \/ startsWith(t, <<"/", "/">>)
       THEN <<>>
     ELSE IF startsWith(t, <<"e","x","p","o","r","t"," ">>) THEN <<>>
     ELSE IF equalsIndex = -1 THEN <<>>
     ELSE IF ~isValidKey(key) THEN <<>>
     ELSE IF Len(value) = 0 THEN <<>>
     ELSE << [line |-> lineNumber, key |-> key, value |-> value,
              keyStart |-> keyStartIndex, keyEnd |-> keyStartIndex + Len(key),
              valueStart |-> valueStartIndex, valueEnd |-> valueEndIndex] >>

\* parseLine returns <<>> for null and <<envVar>> for a declaration
parseLine(lineText, lineNumber) ==
  LET t == trim(lineText)
      equalsIndex == indexOf(t, <<"=">>)
      key == trim(substring(t, 0, equalsIndex))
      value == substringFrom(t, equalsIndex + 1)
      keyStartIndex == indexOf(lineText, key)
      equalsInOriginal == indexOfFrom(lineText, <<"=">>, keyStartIndex)
      valueStartIndex == equalsInOriginal + 1
      valueEndIndex == valueStartIndex + Len(value)
  IN IF t = <<>> \/ startsWith(t, <<"#">>) \/ startsWith(t, <<"/", "/">>)
       THEN <<>>
     ELSE IF startsWith(t, <<"e","x","p","o","r","t"," ">>) THEN <<>>
     ELSE IF equalsIndex = -1 THEN <<>>
     ELSE IF ~isValidKey(key) THEN <<>>
     ELSE IF Len(value) = 0 THEN <<>>
     ELSE << [line |-> lineNumber, key |-> key, value |-> value,
              keyStart |-> keyStartIndex, keyEnd |-> keyStartIndex + Len(key),
              valueStart |-> valueStartIndex, valueEnd |-> valueEndIndex] >>

RECURSIVE parseFrom(_, _)
parseFrom(lines, i) ==
  IF i >= Len(lines) THEN <<>>
  ELSE parseLine(lines[i + 1], i) \o parseFrom(lines, i + 1)

parseDocument(lines) == parseFrom(lines, 0)

----------------------------------------------------------------------------
(* MaskingConfig                                                           *)

\* The settings keys and the values of the source
BULLET == <<"@">>   \* stands for the one-character default mask string

sENV == <<".","e","n","v">>

DEFAULT_ENABLED_PATTERNS ==
  << sENV,
     sENV \o <<".","l","o","c","a","l">>,
     sENV \o <<".","d","e","v","e","l","o","p","m","e","n","t">>,
     sENV \o <<".","p","r","o","d","u","c","t","i","o","n">>,
     sENV \o <<".","t","e","s","t">> >>

DEFAULT_MASKING_LENGTH == 8
DEFAULT_AUTO_HIDE_DELAY_MS == 0
DEFAULT_MAX_AUTO_HIDE_DELAY_MS == 10000
MIN_FIXED_MASK_LENGTH == 5
MAX_FIXED_MASK_LENGTH == 100
MANDATORY_FILEPATTERN == sENV

\* WorkspaceConfiguration.get(key, defaultValue): a setting that is not set
\* is absent from the snapshot
cfgGet(cfg, key, defaultValue) ==
  IF key \in DOMAIN cfg THEN cfg[key] ELSE defaultValue

\* getMaskingCharacter that returns the stored string as it is
getMaskingCharacterAsStored(cfg) == cfgGet(cfg, "eb_maskingCharacter", BULLET)

getMaskingCharacter(cfg) ==
  LET char == cfgGet(cfg, "eb_maskingCharacter", BULLET)
  IN IF Len(char) # 1 THEN BULLET ELSE char

\* getMaskingLengthStrategy with the proportional strategy for default
getMaskingLengthStrategyProportional(cfg) ==
  cfgGet(cfg, "eb_maskingLengthStrategy", "eb_proportionalLength")

getMaskingLengthStrategy(cfg) ==
  cfgGet(cfg, "eb_maskingLengthStrategy", "eb_fixedLength")

\* getFixedMaskLength that brings a stored length into the range 5..100
getFixedMaskLengthClamped(cfg) ==
  LET length == cfgGet(cfg, "eb_fixedMaskLength", DEFAULT_MASKING_LENGTH)
  IN IF length < MIN_FIXED_MASK_LENGTH THEN MIN_FIXED_MASK_LENGTH
     ELSE IF length > MAX_FIXED_MASK_LENGTH THEN MAX_FIXED_MASK_LENGTH
     ELSE length

getFixedMaskLength(cfg) ==
  LET length == cfgGet(cfg, "eb_fixedMaskLength", DEFAULT_MASKING_LENGTH)
  IN IF length < MIN_FIXED_MASK_LENGTH \/ length > MAX_FIXED_MASK_LENGTH
       THEN DEFAULT_MASKING_LENGTH
       ELSE length

\* NaN, the one number isNaN holds for, stands as a number far below every
\* delay a setting holds here
NaN == -1000000

isNaN(x) == x = NaN

\* getAutoHideDelay that returns the stored delay as it is
getAutoHideDelayAsStored(cfg) ==
  cfgGet(cfg, "eb_autoHideDelay", DEFAULT_AUTO_HIDE_DELAY_MS)

getAutoHideDelay(cfg) ==
  LET delay == cfgGet(cfg, "eb_autoHideDelay", DEFAULT_AUTO_HIDE_DELAY_MS)
  IN IF isNaN(delay) \/ delay > DEFAULT_MAX_AUTO_HIDE_DELAY_MS
       THEN DEFAULT_MAX_AUTO_HIDE_DELAY_MS
     ELSE IF delay < 0 THEN DEFAULT_AUTO_HIDE_DELAY_MS
     ELSE delay

getBlacklistedFiles(cfg) == cfgGet(cfg, "eb_blacklistedFiles", <<>>)

\* getEnabledFilePatterns that returns the stored list as it is
getEnabledFilePatternsAsStored(cfg) ==
  cfgGet(cfg, "eb_enabledFilePatterns", DEFAULT_ENABLED_PATTERNS)

getEnabledFilePatterns(cfg) ==
  LET patterns == cfgGet(cfg, "eb_enabledFilePatterns", DEFAULT_ENABLED_PATTERNS)
  IN IF Len(patterns) = 0
        \/ ~(\E i \in 1..Len(patterns) : patterns[i] = MANDATORY_FILEPATTERN)
       THEN Append(patterns, MANDATORY_FILEPATTERN)
       ELSE patterns

isWildcard(pattern) == includes(pattern, "*") \/ includes(pattern, "?")

\* The source of the regular expression built from a pattern, without the
\* anchors: pattern.replace(/\*/g, ".*").replace(/\?/g, ".")
regexSource(pattern) ==
  replaceAll(replaceAll(pattern, "*", <<".", "*">>), "?", <<".">>)

\* new RegExp("^" + src + "$").test(s) for a source made of literal
\* characters, "." (any character) and a "*" after either
RECURSIVE regexTest(_, _)
regexTest(src, s) ==
  IF src = <<>> THEN s = <<>>
  ELSE LET atomOk == s # <<>> /\ (src[1] = "." \/ src[1] = Head(s))
       IN IF Len(src) >= 2 /\ src[2] = "*"
            THEN \/ regexTest(SubSeq(src, 3, Len(src)), s)
                 \/ (atomOk /\ regexTest(src, Tail(s)))
            ELSE atomOk /\ regexTest(Tail(src), Tail(s))

RECURSIVE compileAll(_)
compileAll(patterns) ==
  IF patterns = <<>> THEN EmptyMap
  ELSE LET rest == compileAll(Tail(patterns))
           p == Head(patterns)
       IN IF isWildcard(p) /\ p \notin DOMAIN rest
            THEN MapSet(rest, p, regexSource(p))
            ELSE rest

\* buildRegexCaches that fills the cache of enabled patterns from the blacklist
buildEnabledCacheFromBlacklist(cfg) == compileAll(getBlacklistedFiles(cfg))

\* buildRegexCaches: both caches cleared and rebuilt from the snapshot
buildEnabledCache(cfg) == compileAll(getEnabledFilePatterns(cfg))

buildBlacklistCache(cfg) == compileAll(getBlacklistedFiles(cfg))

\* The part of a path after its last separator
RECURSIVE lastPart(_, _)
lastPart(path, seps) ==
  IF \E i \in 1..Len(path) : path[i] \in seps
    THEN lastPart(Tail(path), seps)
    ELSE path

\* path.basename on a POSIX host
basename(filePath) == lastPart(filePath, {"/"})

\* isFileBlacklisted that looks at the bare file name only
isFileBlacklistedByNameOnly(cfg, blCache, filePath) ==
  LET blacklistedFiles == getBlacklistedFiles(cfg)
      fileName == basename(filePath)
  IN \E i \in 1..Len(blacklistedFiles) :
       LET pattern == blacklistedFiles[i]
       IN IF isWildcard(pattern)
            THEN pattern \in DOMAIN blCache /\ regexTest(blCache[pattern], fileName)
            ELSE fileName = pattern

isFileBlacklisted(cfg, blCache, filePath) ==
  LET blacklistedFiles == getBlacklistedFiles(cfg)
      fileName == basename(filePath)
      normalizedPath == replaceAll(filePath, "\\", <<"/">>)
  IN IF Len(filePath) = 0 \/ Len(trim(filePath)) = 0 THEN FALSE
     ELSE IF Len(blacklistedFiles) = 0 THEN FALSE
     ELSE \E i \in 1..Len(blacklistedFiles) :
            LET pattern == blacklistedFiles[i]
            IN IF isWildcard(pattern)
                 THEN /\ pattern \in DOMAIN blCache
                      /\ \/ regexTest(blCache[pattern], fileName)
                         \/ regexTest(blCache[pattern], normalizedPath)
                 ELSE \/ fileName = pattern
                      \/ endsWith(normalizedPath, pattern)
                      \/ normalizedPath = pattern

matchesEnabledPattern(cfg, enCache, fileName) ==
  LET enabledPatterns == getEnabledFilePatterns(cfg)
  IN \E i \in 1..Len(enabledPatterns) :
       LET pattern == enabledPatterns[i]
       IN IF isWildcard(pattern)
            THEN pattern \in DOMAIN enCache /\ regexTest(enCache[pattern], fileName)
            ELSE fileName = pattern

----------------------------------------------------------------------------
(* The host: documents, their paths and contents, the settings offered.    *)

Docs == {"d1", "d2"}

NoDoc == "none"

\* Documents under other names, used to exercise shouldProcessFile
ProbeDocs == {"p1", "p2", "p3", "p4"}

\* document.uri.fsPath; document.uri.toString() is the document's name here
fsPath(d) ==
  CASE d = "d1" -> <<"/","w","/">> \o sENV
    [] d = "p1" -> <<"/","w","/","p","u","b","l","i","c",".","e","x","a","m","p","l","e">>
                     \o sENV
    [] d = "p2" -> <<"/","w","/","p","u","b","l","i","c">> \o sENV
    [] d = "p3" -> <<"w","\\">> \o sENV
    [] d = "p4" -> <<"/","w","/","n","o","t","e","s">>
    [] d = "g1" -> <<"/","w","/","a",".","e","n","v">>
    [] d = "g2" -> <<"/","w","/","a","X","e","n","v">>
    [] d = "g3" -> <<"/","w","/","a","b",".","e","n","v">>
    [] OTHER -> <<"/","v","/">> \o sENV

lnA == <<"A","=","x"," ">>

lnB == <<" ","B","=","z">>

InitialText == [d \in Docs |-> IF d = "d1" THEN <<lnA, lnB>> ELSE <<lnB>>]

\* The settings a user may have stored (a key that is absent is not set)
CfgNone == EmptyMap

CfgShort ==
  [eb_autoHideDelay |-> 50,
   eb_maskingLengthStrategy |-> "eb_proportionalLength",
   eb_enabledFilePatterns |-> << <<"*",".","e","n","v">> >>]

CfgBlack == [eb_blacklistedFiles |-> << <<"v","/">> \o sENV >>]

Settings == {CfgNone, CfgShort, CfgBlack}

EXTENSION_NAME == "env-mask"

LISTENED_SECTION == "envMasker"

\* event.affectsConfiguration(section) for a change made under `changed`
affectsConfiguration(changed, section) == changed = section

NoDecorations == [mask |-> <<>>, reveal |-> <<>>]

\* History: most steps leave Idle; a click that reveals a line, a hideAll
\* that clears a map with entries, a timer callback that runs on the current
\* map and toggleMasking record what they acted on
Idle == [op |-> "other", doc |-> NoDoc, line |-> -1]

Did(op, d, line) == [op |-> op, doc |-> d, line |-> line]

\* A command that found no active file to act on showed its warning message
Warned == Did("showWarningMessage", NoDoc, -1)

----------------------------------------------------------------------------
(* EnvFileMasker: the pure parts                                           *)

getFileName(d) == lastPart(fsPath(d), {"/", "\\"})

\* shouldProcessFile without the blacklist check
shouldProcessFileIgnoringBlacklist(cfg, blCache, d) ==
  LET fileName == getFileName(d)
      patterns == getEnabledFilePatterns(cfg)
  IN \E i \in 1..Len(patterns) :
       IF isWildcard(patterns[i])
         THEN regexTest(regexSource(patterns[i]), fileName)
         ELSE fileName = patterns[i]

shouldProcessFile(cfg, blCache, d) ==
  LET fileName == getFileName(d)
      patterns == getEnabledFilePatterns(cfg)
  IN IF isFileBlacklisted(cfg, blCache, fsPath(d)) THEN FALSE
     ELSE \E i \in 1..Len(patterns) :
            IF isWildcard(patterns[i])
              THEN regexTest(regexSource(patterns[i]), fileName)
              ELSE fileName = patterns[i]

\* parseDocument and shouldProcessFile are functions of their arguments:
\* their results for the texts and the settings of this model are computed
\* once and looked up
ParsedTexts == [t \in {InitialText[d] : d \in Docs} |-> parseDocument(t)]

parseText(lines) ==
  IF lines \in DOMAIN ParsedTexts THEN ParsedTexts[lines]
  ELSE parseDocument(lines)

ProcessedFiles ==
  [c \in Settings, b \in {buildBlacklistCache(x) : x \in Settings}, d \in Docs |->
     shouldProcessFile(c, b, d)]

processesFile(cfg, blCache, d) ==
  IF <<cfg, blCache, d>> \in DOMAIN ProcessedFiles
    THEN ProcessedFiles[cfg, blCache, d]
    ELSE shouldProcessFile(cfg, blCache, d)

\* generateMask that follows the length of the value under either strategy
generateMaskProportional(cfg, value) ==
  repeat(getMaskingCharacter(cfg), Len(value))

generateMask(cfg, value) ==
  LET maskChar == getMaskingCharacter(cfg)
      strategy == getMaskingLengthStrategy(cfg)
  IN IF strategy = "eb_fixedLength"
       THEN repeat(maskChar, getFixedMaskLength(cfg))
       ELSE repeat(maskChar, Len(value))

RECURSIVE buildDecorations(_, _, _)
buildDecorations(cfg, revealedForFile, envVariables) ==
  IF envVariables = <<>> THEN NoDecorations
  ELSE LET envVar == Head(envVariables)
           rest == buildDecorations(cfg, revealedForFile, Tail(envVariables))
           range == [line |-> envVar.line, start |-> envVar.valueStart,
                     end |-> envVar.valueEnd]
       IN IF envVar.line \in DOMAIN revealedForFile
            THEN [rest EXCEPT !.reveal = <<range>> \o @]
            ELSE [rest EXCEPT !.mask =
                    << [range |-> range,
                        contentText |-> generateMask(cfg, envVar.value)] >> \o @]

\* applyMasking that shows a revealed line at the span its entry stores
RECURSIVE buildDecorationsStoredSpans(_, _, _)
buildDecorationsStoredSpans(cfg, revealedForFile, envVariables) ==
  IF envVariables = <<>> THEN NoDecorations
  ELSE LET envVar == Head(envVariables)
           rest == buildDecorationsStoredSpans(cfg, revealedForFile, Tail(envVariables))
       IN IF envVar.line \in DOMAIN revealedForFile
            THEN [rest EXCEPT !.reveal =
                    << [line |-> envVar.line,
                        start |-> revealedForFile[envVar.line].startChar,
                        end |-> revealedForFile[envVar.line].endChar] >> \o @]
            ELSE [rest EXCEPT !.mask =
                    << [range |-> [line |-> envVar.line, start |-> envVar.valueStart,
                                   end |-> envVar.valueEnd],
                        contentText |-> generateMask(cfg, envVar.value)] >> \o @]

applyMaskingStoredSpans(cfg, rv, d, envVariables) ==
  LET revealedForFile == IF d \in DOMAIN rv THEN rv[d] ELSE EmptyMap
  IN buildDecorationsStoredSpans(cfg, revealedForFile, envVariables)

\* The two lists applyMasking hands to editor.setDecorations
applyMasking(cfg, rv, d, envVariables) ==
  LET revealedForFile == IF d \in DOMAIN rv THEN rv[d] ELSE EmptyMap
  IN buildDecorations(cfg, revealedForFile, envVariables)

\* The operations below take and return S, the record of what they can
\* touch: [rv: revealedValues, tm: the live timers, dec: the decorations of
\* every editor, txt: the text of every document].

\* processEditor that masks by writing the mask over the value in the document
maskedLine(cfg, lineText, lineNumber) ==
  LET parsed == parseLine(lineText, lineNumber)
  IN IF parsed = <<>> THEN lineText
     ELSE SubSeq(lineText, 1, parsed[1].valueStart)
            \o generateMask(cfg, parsed[1].value)

processEditorWritingMask(en, cfg, S, d) ==
  IF ~en THEN S
  ELSE [S EXCEPT
          !.dec[d] = applyMasking(cfg, S.rv, d, parseText(S.txt[d])),
          !.txt[d] = [i \in 1..Len(S.txt[d]) |->
                        IF (i - 1) \in DOMAIN (IF d \in DOMAIN S.rv THEN S.rv[d]
                                                                     ELSE EmptyMap)
                          THEN S.txt[d][i]
                          ELSE maskedLine(cfg, S.txt[d][i], i - 1)]]

\* processEditor without the early return when masking is disabled
processEditorUngated(en, cfg, S, d) ==
  [S EXCEPT !.dec[d] = applyMasking(cfg, S.rv, d, parseText(S.txt[d]))]

\* processEditor that adds the new decorations to those already set
processEditorAppending(en, cfg, S, d) ==
  IF ~en THEN S
  ELSE LET new == applyMasking(cfg, S.rv, d, parseText(S.txt[d]))
       IN [S EXCEPT !.dec[d] = [mask |-> @.mask \o new.mask,
                                reveal |-> @.reveal \o new.reveal]]

\* processEditor on the editor of d
processEditor(en, cfg, S, d) ==
  IF ~en THEN S
  ELSE [S EXCEPT !.dec[d] = applyMasking(cfg, S.rv, d, parseText(S.txt[d]))]

\* processEditor for every visible editor of a file to process; processEditor
\* on the editor of d touches nothing of another document
processAllOpenEditors(en, cfg, blCache, docSt, S) ==
  LET processed(d) == docSt[d] = "visible" /\ processesFile(cfg, blCache, d)
  IN [S EXCEPT
        !.dec = [d \in Docs |-> IF processed(d)
                                  THEN processEditor(en, cfg, S, d).dec[d]
                                  ELSE S.dec[d]],
        !.txt = [d \in Docs |-> IF processed(d)
                                  THEN processEditor(en, cfg, S, d).txt[d]
                                  ELSE S.txt[d]]]

----------------------------------------------------------------------------

TimerIds == 1..MaxTimers

\* timers: the live timers in the order setTimeout created them.  A callback
\* keeps the map of the document (revealedForFile), the line and the editor
\* it was created with.  stale: that map is no longer in revealedValues, or
\* that editor is gone.
HandlesOf(tm) == {tm[i].id : i \in 1..Len(tm)}

\* setTimeout returns a handle no live timer has
NewTimerId(tm) ==
  CHOOSE i \in TimerIds \ HandlesOf(tm) :
    \A j \in TimerIds \ HandlesOf(tm) : i <= j

setTimeout(tm, d, line, delay) ==
  Append(tm, [id |-> NewTimerId(tm), doc |-> d, line |-> line,
              stale |-> FALSE, delay |-> delay])

clearTimeout(tm, id) == SelectSeq(tm, LAMBDA t : t.id # id)

\* clearTimeout for every entry of a map that holds a handle
clearTimeouts(tm, revealedForFile) ==
  SelectSeq(tm, LAMBDA t :
    t.id \notin {revealedForFile[l].timeout : l \in DOMAIN revealedForFile})

\* The callbacks of these timers lose their map and editor
MarkStale(tm, ds) ==
  [i \in 1..Len(tm) |->
     IF tm[i].doc \in ds THEN [tm[i] EXCEPT !.stale = TRUE] ELSE tm[i]]

\* toggleValueVisibility that hides a line without clearing its timer
toggleValueVisibilityKeepingTimer(en, cfg, S, d, envVar) ==
  LET rv1 == IF d \notin DOMAIN S.rv THEN MapSet(S.rv, d, EmptyMap) ELSE S.rv
      revealedForFile == rv1[d]
      autoHideDelay == getAutoHideDelay(cfg)
      handle == IF autoHideDelay > 0 THEN NewTimerId(S.tm) ELSE 0
      revealedValue == [line |-> envVar.line, startChar |-> envVar.valueStart,
                        endChar |-> envVar.valueEnd, timeout |-> handle]
      rv2 == IF envVar.line \in DOMAIN revealedForFile
               THEN [rv1 EXCEPT ![d] = MapDelete(@, envVar.line)]
               ELSE [rv1 EXCEPT ![d] = MapSet(@, envVar.line, revealedValue)]
      tm2 == IF envVar.line \in DOMAIN revealedForFile
               THEN S.tm
               ELSE (IF autoHideDelay > 0
                       THEN setTimeout(S.tm, d, envVar.line, autoHideDelay)
                       ELSE S.tm)
  IN processEditor(en, cfg, [S EXCEPT !.rv = rv2, !.tm = tm2], d)

\* toggleValueVisibility that keeps one line revealed at a time
toggleValueVisibilityExclusive(en, cfg, S, d, envVar) ==
  LET rv1 == IF d \notin DOMAIN S.rv THEN MapSet(S.rv, d, EmptyMap) ELSE S.rv
      revealedForFile == rv1[d]
      revealedValue == [line |-> envVar.line, startChar |-> envVar.valueStart,
                        endChar |-> envVar.valueEnd, timeout |-> 0]
      rv2 == IF envVar.line \in DOMAIN revealedForFile
               THEN [rv1 EXCEPT ![d] = MapDelete(@, envVar.line)]
               ELSE [rv1 EXCEPT ![d] = MapSet(EmptyMap, envVar.line, revealedValue)]
  IN processEditor(en, cfg, [S EXCEPT !.rv = rv2, !.tm = clearTimeouts(S.tm, revealedForFile)], d)

toggleValueVisibility(en, cfg, S, d, envVar) ==
  LET rv1 == IF d \notin DOMAIN S.rv THEN MapSet(S.rv, d, EmptyMap) ELSE S.rv
      revealedForFile == rv1[d]
      autoHideDelay == getAutoHideDelay(cfg)
      handle == IF autoHideDelay > 0 THEN NewTimerId(S.tm) ELSE 0
      revealedValue == [line |-> envVar.line, startChar |-> envVar.valueStart,
                        endChar |-> envVar.valueEnd, timeout |-> handle]
      rv2 == IF envVar.line \in DOMAIN revealedForFile
               THEN [rv1 EXCEPT ![d] = MapDelete(@, envVar.line)]
               ELSE [rv1 EXCEPT ![d] = MapSet(@, envVar.line, revealedValue)]
      tm2 == IF envVar.line \in DOMAIN revealedForFile
               THEN (IF revealedForFile[envVar.line].timeout # 0
                       THEN clearTimeout(S.tm, revealedForFile[envVar.line].timeout)
                       ELSE S.tm)
               ELSE (IF autoHideDelay > 0
                       THEN setTimeout(S.tm, d, envVar.line, autoHideDelay)
                       ELSE S.tm)
  IN processEditor(en, cfg, [S EXCEPT !.rv = rv2, !.tm = tm2], d)

hideAllValuesForFile(en, cfg, S, d) ==
  IF d \in DOMAIN S.rv /\ DOMAIN S.rv[d] # {}
    THEN processEditor(en, cfg,
                       [S EXCEPT !.rv = [S.rv EXCEPT ![d] = EmptyMap],
                                 !.tm = clearTimeouts(S.tm, S.rv[d])],
                       d)
    ELSE S

\* find with the end of the value excluded
clickedVariableBeforeEnd(envVariables, line, character) ==
  SelectSeq(envVariables,
            LAMBDA envVar : /\ envVar.line = line
                            /\ character >= envVar.valueStart
                            /\ character < envVar.valueEnd)

\* envVariables.find(...): the first declaration the position falls on, as
\* <<envVar>>, or <<>>
clickedVariable(envVariables, line, character) ==
  SelectSeq(envVariables,
            LAMBDA envVar : /\ envVar.line = line
                            /\ character >= envVar.valueStart
                            /\ character <= envVar.valueEnd)

handleClick(en, cfg, S, d, line, character) ==
  LET found == clickedVariable(parseText(S.txt[d]), line, character)
  IN IF found # <<>>
       THEN toggleValueVisibility(en, cfg, S, d, Head(found))
       ELSE hideAllValuesForFile(en, cfg, S, d)

RECURSIVE revealEach(_, _)
revealEach(revealedForFile, envVariables) ==
  IF envVariables = <<>> THEN revealedForFile
  ELSE revealEach(
         MapSet(revealedForFile, Head(envVariables).line,
                [line |-> Head(envVariables).line,
                 startChar |-> Head(envVariables).valueStart,
                 endChar |-> Head(envVariables).valueEnd,
                 timeout |-> 0]),
         Tail(envVariables))

\* The body of revealAllValues for an eligible active editor
revealAll(en, cfg, S, d) ==
  LET rv1 == IF d \notin DOMAIN S.rv THEN MapSet(S.rv, d, EmptyMap) ELSE S.rv
      rv2 == [rv1 EXCEPT ![d] = revealEach(@, parseText(S.txt[d]))]
  IN processEditor(en, cfg, [S EXCEPT !.rv = rv2], d)

\* A callback that re-renders without deleting the entry of its line
timerCallbackKeepsEntry(en, cfg, S, t) == processEditor(en, cfg, S, t.doc)

\* The callback of a timer whose map and editor are still the current ones
timerCallback(en, cfg, S, t) ==
  processEditor(en, cfg, [S EXCEPT !.rv[t.doc] = MapDelete(@, t.line)], t.doc)

\* The timers dispose() leaves live: those no entry of the map holds
disposeTimers(rv, tm) ==
  SelectSeq(tm, LAMBDA t :
    t.id \notin UNION {{rv[d][l].timeout : l \in DOMAIN rv[d]} : d \in DOMAIN rv})

----------------------------------------------------------------------------
(* The state machine                                                       *)

State ==
  [rv |-> revealedValues, tm |-> timers, dec |-> decorations, txt |-> text]

Apply(S) ==
  /\ revealedValues' = S.rv
  /\ timers' = S.tm
  /\ decorations' = S.dec
  /\ text' = S.txt

Eligible(d) == processesFile(config, blacklistCache, d)

Declarations(d) == parseText(text[d])

CfgVars == <<config, enabledPatternCache, blacklistCache>>

\* new EnvFileMasker() followed by activate's handleEditorChange, for any
\* stored settings and any set of editors already shown
Init ==
  /\ config \in Settings
  /\ enabledPatternCache = buildEnabledCache(config)
  /\ blacklistCache = buildBlacklistCache(config)
  /\ text = InitialText
  /\ docState \in [Docs -> {"closed", "visible"}]
  /\ revealedValues = EmptyMap
  /\ timers = <<>>
  /\ enabled = TRUE
  /\ decorations =
       processAllOpenEditors(
         TRUE, config, buildBlacklistCache(config), docState,
         [rv |-> EmptyMap, tm |-> <<>>, dec |-> [d \in Docs |-> NoDecorations],
          txt |-> InitialText]).dec
  /\ disposed = FALSE
  /\ last = Idle

\* onDidChangeActiveTextEditor(editor of d)
handleEditorChange(d) ==
  /\ ~disposed
  /\ docState[d] = "visible"
  /\ Apply(IF Eligible(d) THEN processEditor(enabled, config, State, d)
                           ELSE State)
  /\ last' = Idle
  /\ UNCHANGED <<CfgVars, docState, enabled, disposed>>

\* onDidOpenTextDocument(d); shown: its editor is already among the visible
\* ones when the event arrives (it is shown right after otherwise)
handleDocumentOpen(d, shown) ==
  /\ ~disposed
  /\ docState[d] = "closed"
  /\ docState' = [docState EXCEPT ![d] = "visible"]
  /\ Apply(IF Eligible(d) /\ shown
             THEN processEditor(enabled, config, State, d)
             ELSE State)
  /\ last' = Idle
  /\ UNCHANGED <<CfgVars, enabled, disposed>>

\* handleDocumentClose that drops the reveal entries of every document
closeDocumentAll(rv, tm, d) == [rv |-> EmptyMap, tm |-> tm]

\* What handleDocumentClose does to the reveal map and the timers
closeDocument(rv, tm, d) == [rv |-> MapDelete(rv, d), tm |-> tm]

\* onDidCloseTextDocument(d): the editor of d is gone with its decorations
handleDocumentClose(d) ==
  /\ ~disposed
  /\ docState[d] # "closed"
  /\ docState' = [docState EXCEPT ![d] = "closed"]
  /\ LET C == closeDocument(revealedValues, timers, d)
     IN /\ revealedValues' = C.rv
        /\ timers' = MarkStale(C.tm, {d})
  /\ decorations' = [decorations EXCEPT ![d] = NoDecorations]
  /\ last' = Idle
  /\ UNCHANGED <<CfgVars, text, enabled, disposed>>

HasEntry(d, line) ==
  d \in DOMAIN revealedValues /\ line \in DOMAIN revealedValues[d]

HasEntries(d) == d \in DOMAIN revealedValues /\ DOMAIN revealedValues[d] # {}

\* The click would call setTimeout
WouldSchedule(d, line, character) ==
  /\ clickedVariable(Declarations(d), line, character) # <<>>
  /\ ~HasEntry(d, line)
  /\ getAutoHideDelay(config) > 0

\* The positions of a document: <<line, character>>
Positions(d) ==
  {pos \in (0..(MaxLines - 1)) \X (0..MaxLineLength) :
     /\ pos[1] < Len(text[d])
     /\ pos[2] <= Len(text[d][pos[1] + 1])}

\* selections[0] of a selection change that is no caret
Range == <<-1, -1>>

\* handleSelectionChange that does not ask whether masking is enabled
handleSelectionChangeWhileDisabled(d, sel) ==
  /\ ~disposed
  /\ docState[d] = "visible"
  /\ sel \in Positions(d) \cup {Range}
  /\ LET proceed == Eligible(d) /\ sel # Range
         found == clickedVariable(Declarations(d), sel[1], sel[2])
     IN /\ (proceed /\ WouldSchedule(d, sel[1], sel[2]))
             => Len(timers) < MaxTimers
        /\ Apply(IF proceed
                   THEN handleClick(enabled, config, State, d, sel[1], sel[2])
                   ELSE State)
        /\ last' =
             IF proceed /\ found # <<>> /\ ~HasEntry(d, sel[1])
               THEN Did("reveal", d, sel[1])
             ELSE IF proceed /\ found = <<>> /\ HasEntries(d)
               THEN Did("hideAll", d, -1)
             ELSE Idle
  /\ UNCHANGED <<CfgVars, docState, enabled, disposed>>

\* onDidChangeTextEditorSelection on the editor of d; sel: the position of
\* the caret, or Range for a selection that is not empty
handleSelectionChange(d, sel) ==
  /\ ~disposed
  /\ docState[d] = "visible"
  /\ sel \in Positions(d) \cup {Range}
  /\ LET proceed == Eligible(d) /\ enabled /\ sel # Range
         found == clickedVariable(Declarations(d), sel[1], sel[2])
     IN /\ (proceed /\ WouldSchedule(d, sel[1], sel[2]))
             => Len(timers) < MaxTimers
        /\ Apply(IF proceed
                   THEN handleClick(enabled, config, State, d, sel[1], sel[2])
                   ELSE State)
        /\ last' =
             IF proceed /\ found # <<>> /\ ~HasEntry(d, sel[1])
               THEN Did("reveal", d, sel[1])
             ELSE IF proceed /\ found = <<>> /\ HasEntries(d)
               THEN Did("hideAll", d, -1)
             ELSE Idle
  /\ UNCHANGED <<CfgVars, docState, enabled, disposed>>

\* toggleMasking that also forgets what was revealed
toggleMaskingResetting ==
  /\ ~disposed
  /\ enabled' = ~enabled
  /\ Apply(IF enabled'
             THEN processAllOpenEditors(TRUE, config, blacklistCache, docState,
                                        [State EXCEPT !.rv = EmptyMap])
             ELSE [State EXCEPT !.rv = EmptyMap, !.dec =
                     [d \in Docs |-> IF docState[d] = "visible"
                                       THEN NoDecorations ELSE decorations[d]]])
  /\ last' = Did("toggleMasking", NoDoc, -1)
  /\ UNCHANGED <<CfgVars, docState, disposed>>

toggleMasking ==
  /\ ~disposed
  /\ enabled' = ~enabled
  /\ Apply(IF enabled'
             THEN processAllOpenEditors(TRUE, config, blacklistCache, docState,
                                        State)
             ELSE [State EXCEPT !.dec =
                     [d \in Docs |-> IF docState[d] = "visible"
                                       THEN NoDecorations ELSE decorations[d]]])
  /\ last' = Did("toggleMasking", NoDoc, -1)
  /\ UNCHANGED <<CfgVars, docState, disposed>>

\* revealAllValues that asks only for an active editor, not whether its file
\* is one to process
revealAllValuesAnyFile(active) ==
  /\ ~disposed
  /\ IF active = NoDoc THEN TRUE ELSE docState[active] = "visible"
  /\ IF active = NoDoc
       THEN Apply(State) /\ last' = Warned
       ELSE Apply(revealAll(enabled, config, State, active)) /\ last' = Idle
  /\ UNCHANGED <<CfgVars, docState, enabled, disposed>>

\* The command that reveals all; active: the document of
\* window.activeTextEditor at that moment, NoDoc when there is none
revealAllValues(active) ==
  /\ ~disposed
  /\ IF active = NoDoc THEN TRUE ELSE docState[active] = "visible"
  /\ IF active = NoDoc \/ ~Eligible(active)
       THEN Apply(State) /\ last' = Warned
       ELSE Apply(revealAll(enabled, config, State, active)) /\ last' = Idle
  /\ UNCHANGED <<CfgVars, docState, enabled, disposed>>

maskAllValues(active) ==
  /\ ~disposed
  /\ IF active = NoDoc THEN TRUE ELSE docState[active] = "visible"
  /\ IF active = NoDoc \/ ~Eligible(active)
       THEN Apply(State) /\ last' = Warned
       ELSE /\ Apply(hideAllValuesForFile(enabled, config, State, active))
            /\ last' = IF HasEntries(active) THEN Did("hideAll", active, -1)
                                             ELSE Idle
  /\ UNCHANGED <<CfgVars, docState, enabled, disposed>>

\* updateConfiguration whose reload replaces the snapshot and keeps the
\* caches compiled from the one before
updateConfigurationKeepingCaches(stored) ==
  /\ config' = stored
  /\ UNCHANGED <<enabledPatternCache, blacklistCache>>
  /\ Apply(processAllOpenEditors(enabled, stored, blacklistCache,
                                 docState, State))

\* updateConfiguration: MaskingConfig.reload, which reads the settings the
\* host holds at that moment (stored), then processAllOpenEditors
updateConfiguration(stored) ==
  /\ config' = stored
  /\ enabledPatternCache' = buildEnabledCache(stored)
  /\ blacklistCache' = buildBlacklistCache(stored)
  /\ Apply(processAllOpenEditors(enabled, stored, buildBlacklistCache(stored),
                                 docState, State))

\* onDidChangeConfiguration for a change under `section`, after which the
\* host holds the settings `stored` for the section MaskingConfig reads
onDidChangeConfiguration(section, stored) ==
  /\ ~disposed
  /\ IF affectsConfiguration(section, LISTENED_SECTION)
       THEN updateConfiguration(stored)
       ELSE UNCHANGED CfgVars /\ Apply(State)
  /\ last' = Idle
  /\ UNCHANGED <<docState, enabled, disposed>>

\* A timer can be due only after every older timer with no longer a delay
CanFire(tm, i) == \A j \in 1..(i - 1) : tm[j].delay > tm[i].delay

\* A timer runs its callback
timerFire(i) ==
  /\ i \in 1..Len(timers)
  /\ CanFire(timers, i)
  /\ LET t == timers[i]
         S == [State EXCEPT !.tm = clearTimeout(timers, t.id)]
     IN /\ Apply(IF t.stale THEN S
                 ELSE timerCallback(enabled, config, S, t))
        /\ last' = IF t.stale THEN Idle ELSE Did("fire", t.doc, t.line)
  /\ UNCHANGED <<CfgVars, docState, enabled, disposed>>

\* deactivate(): envMasker.dispose(); the decoration types are disposed, so
\* nothing set with them shows any more
dispose ==
  /\ ~disposed
  /\ disposed' = TRUE
  /\ timers' = MarkStale(disposeTimers(revealedValues, timers), Docs)
  /\ revealedValues' = EmptyMap
  /\ decorations' = [d \in Docs |-> NoDecorations]
  /\ last' = Idle
  /\ UNCHANGED <<CfgVars, text, docState, enabled>>

Next ==
  \/ \E d \in Docs : handleEditorChange(d)
  \/ \E d \in Docs, shown \in BOOLEAN : handleDocumentOpen(d, shown)
  \/ \E d \in Docs : handleDocumentClose(d)
  \/ \E d \in Docs, sel \in ((0..(MaxLines - 1)) \X (0..MaxLineLength)) \cup {Range} :
        handleSelectionChange(d, sel)
  \/ toggleMasking
  \/ \E active \in Docs \cup {NoDoc} : revealAllValues(active)
  \/ \E active \in Docs \cup {NoDoc} : maskAllValues(active)
  \/ \E section \in {EXTENSION_NAME, LISTENED_SECTION}, stored \in Settings :
        onDidChangeConfiguration(section, stored)
  \/ \E i \in TimerIds : timerFire(i)
  \/ dispose

Spec == Init /\ [][Next]_vars

\* Timers are run by the event loop: a timer that is due is not postponed
\* for ever
SpecFair == Spec /\ WF_vars(\E i \in TimerIds : timerFire(i))

----------------------------------------------------------------------------
(* Properties                                                              *)

Lines(d) == {Declarations(d)[i].line : i \in 1..Len(Declarations(d))}

\* The live timers whose callback still acts on the current map of d
TimersFor(tm, d) == {i \in 1..Len(tm) : tm[i].doc = d /\ ~tm[i].stale}

\* The live timers created for a reveal in d, whatever became of the map
TimersCreatedFor(tm, d) == {i \in 1..Len(tm) : tm[i].doc = d}

\* C1: after handleDocumentClose(d) the reveal map of d is removed and no
\* timer created for a reveal in d is live any more.
C1_CloseCancelsTimers ==
  [][\A d \in Docs :
       handleDocumentClose(d) =>
         /\ d \notin DOMAIN revealedValues'
         /\ TimersCreatedFor(timers', d) = {}]_vars

\* C2: after revealAllValues on an eligible active document every declaration
\* of the parse has an entry without a timer, and every timer held by an
\* entry that revealAll overwrote is cancelled.
C2_RevealAllPersistent ==
  [][\A d \in Docs :
       (revealAllValues(d) /\ Eligible(d)) =>
         /\ \A l \in Lines(d) :
              /\ d \in DOMAIN revealedValues'
              /\ l \in DOMAIN revealedValues'[d]
              /\ revealedValues'[d][l].timeout = 0
         /\ \A l \in Lines(d) :
              (HasEntry(d, l) /\ revealedValues[d][l].timeout # 0)
                => revealedValues[d][l].timeout \notin HandlesOf(timers')]_vars

\* C3: when a click has just revealed line L of d from Masked and the next
\* step is a click on the same declaration, L is Masked afterwards and no
\* live timer targets L.
C3_ToggleTwice ==
  [][\A d \in Docs, sel \in (0..(MaxLines - 1)) \X (0..MaxLineLength) :
       ( /\ last = Did("reveal", d, sel[1])
         /\ handleSelectionChange(d, sel)
         /\ clickedVariable(Declarations(d), sel[1], sel[2]) # <<>> )
       => /\ ~(HasEntry(d, sel[1]))'
          /\ \A i \in TimersFor(timers', d) : timers'[i].line # sel[1]]_vars

\* The lines of d that hold a declaration when the extension starts
InitialLines(d) ==
  {ParsedTexts[InitialText[d]][i].line : i \in 1..Len(ParsedTexts[InitialText[d]])}

\* Line l of d is revealed with an auto-hide timer scheduled
PendingReveal(d, l) == HasEntry(d, l) /\ revealedValues[d][l].timeout # 0

\* The editor of d shows what applyMasking computes from the current state
Rendered(d) ==
  decorations[d] = applyMasking(config, revealedValues, d, Declarations(d))

\* C4: a line revealed with a timer scheduled is eventually Masked again
\* when timers are run fairly, and the callback of a timer that still acts
\* on the current map removes the entry of its line and re-renders the editor.
C4_AutoHide ==
  /\ \A d \in Docs : \A l \in InitialLines(d) :
       PendingReveal(d, l) ~> ~HasEntry(d, l)
  /\ [][\A d \in Docs, l \in 0..(MaxLines - 1) :
          last' = Did("fire", d, l)
            => /\ ~(HasEntry(d, l))'
               /\ enabled => (Rendered(d))']_vars

\* A timer has just run on the current map: its line is Masked and rendered
\* masked, with no click in between
C4_Witness ==
  /\ last.op = "fire"
  /\ enabled
  /\ ~HasEntry(last.doc, last.line)
  /\ \E i \in 1..Len(decorations[last.doc].mask) :
       decorations[last.doc].mask[i].range.line = last.line

\* C5: after dispose() no timer the controller created is live and the
\* reveal map is empty.
C5_DisposeCancelsAll ==
  disposed => (timers = <<>> /\ revealedValues = EmptyMap)

\* The step is hideAllValuesForFile on d: maskAllValues with d active, or a
\* click in d that falls on no value
IsHideAll(d) ==
  \/ maskAllValues(d) /\ Eligible(d)
  \/ /\ Eligible(d) /\ enabled
     /\ \E sel \in Positions(d) :
          /\ handleSelectionChange(d, sel)
          /\ clickedVariable(Declarations(d), sel[1], sel[2]) = <<>>

\* C6: hideAll on a document whose reveal map has entries leaves no live
\* timer of that document's reveals and an empty map, and re-renders; on
\* an empty or absent map it changes nothing.
C6_HideAll ==
  [][\A d \in Docs :
       IsHideAll(d) =>
         IF HasEntries(d)
           THEN /\ TimersFor(timers', d) = {}
                /\ ~(HasEntries(d))'
                /\ enabled => (Rendered(d))'
           ELSE UNCHANGED <<revealedValues, timers, decorations>>]_vars

\* C7: no step of the controller changes the text of a document; what
\* changes is the decorations, the reveal state and the timers.
C7_TextUnchanged == [][text' = text]_vars

\* Values are revealed, decorations are set and a timer is pending, and
\* every document still has the text it had
C7_Witness ==
  /\ text = InitialText
  /\ timers # <<>>
  /\ \E d \in Docs : HasEntries(d) /\ decorations[d].reveal # <<>>
                       /\ decorations[d].mask # <<>>

\* C8: while masking is disabled no visible editor shows a mask or a
\* reveal decoration.
C8_DisabledShowsNothing ==
  ~enabled =>
    \A d \in Docs : docState[d] = "visible" => decorations[d] = NoDecorations

\* Masking is disabled and a timer has just run on a visible document to
\* process that still has a revealed line
C8_Witness ==
  /\ ~enabled
  /\ last.op = "fire"
  /\ docState[last.doc] = "visible"
  /\ Eligible(last.doc)
  /\ HasEntries(last.doc)

\* Line l of d has an entry in the reveal map rv
InMap(rv, d, l) == d \in DOMAIN rv /\ l \in DOMAIN rv[d]

\* The editor of d shows line l with the reveal decoration
ShownRevealed(decs, d, l) ==
  \E i \in 1..Len(decs[d].reveal) : decs[d].reveal[i].line = l

\* C9: toggleMasking flips the enabled flag and leaves the reveal entries and
\* the timers as they are; when it enables masking, a line with an entry
\* is rendered as revealed.
C9_ToggleMaskingKeepsReveals ==
  [][last'.op = "toggleMasking" =>
       /\ enabled' = ~enabled
       /\ revealedValues' = revealedValues
       /\ timers' = timers
       /\ enabled' =>
            \A d \in Docs : \A l \in Lines(d) :
              (docState[d] = "visible" /\ Eligible(d) /\ HasEntry(d, l))
                => ShownRevealed(decorations', d, l)]_vars

\* Masking has just been enabled again and a line revealed before is shown
\* revealed
C9_Witness ==
  /\ enabled
  /\ last.op = "toggleMasking"
  /\ \E d \in Docs : \E l \in Lines(d) :
       HasEntry(d, l) /\ ShownRevealed(decorations, d, l)

\* The position falls on the value of a declaration of d: same line, and a
\* column from valueStart to valueEnd, both included
OnValue(d, line, character) ==
  \E i \in 1..Len(Declarations(d)) :
    /\ Declarations(d)[i].line = line
    /\ Declarations(d)[i].valueStart <= character
    /\ character <= Declarations(d)[i].valueEnd

----------------------------------------------------------------------------
(* Which files are processed: any stored pattern lists, documents under     *)
(* several names, opened and shown one after the other.                    *)

FileDocs == Docs \cup ProbeDocs

sPublic == <<"p","u","b","l","i","c">>

\* eb_enabledFilePatterns as stored (<<>>: not set, << v >>: set to v)
EnabledChoices ==
  { <<>>,
    << <<>> >>,
    << << <<"*">> \o sENV >> >>,
    << << <<"n","o","t","e","s">> >> >>,
    << << sPublic \o <<".","?","?","?">>, sENV >> >> }

\* eb_blacklistedFiles as stored
BlacklistChoices ==
  { <<>>,
    << <<>> >>,
    << << <<"*",".","e","x","a","m","p","l","e">> \o sENV >> >>,
    << << sENV >> >>,
    << << <<"w","/">> \o sENV >> >>,
    << << <<"/","w","/">> \o sPublic \o sENV >> >>,
    << << <<"/","w","/","*">> >> >> }

Stored(m, key, choice) == IF choice = <<>> THEN m ELSE MapSet(m, key, choice[1])

FileSettings ==
  { Stored(Stored(EmptyMap, "eb_enabledFilePatterns", e), "eb_blacklistedFiles", b) :
      e \in EnabledChoices, b \in BlacklistChoices }

\* new EnvFileMasker() with no document open yet
InitFiles ==
  /\ config \in FileSettings
  /\ enabledPatternCache = buildEnabledCache(config)
  /\ blacklistCache = buildBlacklistCache(config)
  /\ text = [d \in FileDocs |-> <<lnB>>]
  /\ docState = [d \in FileDocs |-> "closed"]
  /\ revealedValues = EmptyMap
  /\ timers = <<>>
  /\ enabled = TRUE
  /\ decorations = [d \in FileDocs |-> NoDecorations]
  /\ disposed = FALSE
  /\ last = Idle

NextFiles ==
  \/ \E d \in FileDocs, shown \in BOOLEAN : handleDocumentOpen(d, shown)
  \/ \E d \in FileDocs : handleEditorChange(d)

SpecFiles == InitFiles /\ [][NextFiles]_vars

NameEnabled(d) ==
  matchesEnabledPattern(config, enabledPatternCache, getFileName(d))

Blacklisted(d) == isFileBlacklisted(config, blacklistCache, fsPath(d))

\* C11: a file is processed exactly when its bare name matches an enabled
\* pattern and its path is not blacklisted; a blacklisted file is never
\* processed, so it is never rendered, whatever its name matches
C11_Eligibility ==
  \A d \in FileDocs :
    /\ shouldProcessFile(config, blacklistCache, d)
         <=> (NameEnabled(d) /\ ~Blacklisted(d))
    /\ Blacklisted(d) => ~shouldProcessFile(config, blacklistCache, d)
    /\ decorations[d] # NoDecorations => NameEnabled(d) /\ ~Blacklisted(d)

\* A shown file whose name is enabled but whose path is blacklisted stays
\* bare, next to a rendered one and to one whose name is not enabled
C11_Witness ==
  \E d \in FileDocs, e \in FileDocs, f \in FileDocs :
    /\ docState[d] = "visible" /\ docState[e] = "visible" /\ docState[f] = "visible"
    /\ NameEnabled(d) /\ Blacklisted(d) /\ decorations[d] = NoDecorations
    /\ decorations[e] # NoDecorations
    /\ ~NameEnabled(f) /\ ~Blacklisted(f)

\* C12: whatever list of enabled patterns is stored (none, an empty one, one
\* without ".env"), the effective list contains ".env" and the file name
\* ".env" is reported enabled
C12_EnvAlwaysEnabled ==
  /\ \E i \in 1..Len(getEnabledFilePatterns(config)) :
       getEnabledFilePatterns(config)[i] = <<".","e","n","v">>
  /\ matchesEnabledPattern(config, enabledPatternCache, <<".","e","n","v">>)
  /\ NameEnabled("d1")

\* A stored list that is empty or omits ".env", and the file ".env" rendered
C12_Witness ==
  /\ "eb_enabledFilePatterns" \in DOMAIN config
  /\ \A i \in 1..Len(config["eb_enabledFilePatterns"]) :
       config["eb_enabledFilePatterns"][i] # <<".","e","n","v">>
  /\ getFileName("d1") = <<".","e","n","v">>
  /\ decorations["d1"] # NoDecorations

IsSuffix(p, s) ==
  Len(p) <= Len(s) /\ SubSeq(s, Len(s) - Len(p) + 1, Len(s)) = p

\* The path with every backslash turned into a slash
Normalized(path) ==
  [i \in 1..Len(path) |-> IF path[i] = "\\" THEN "/" ELSE path[i]]

\* One blacklist pattern matches a path
PatternBlacklists(p, path) ==
  IF \E i \in 1..Len(p) : p[i] \in {"*", "?"}
    THEN \/ regexTest(regexSource(p), basename(path))
         \/ regexTest(regexSource(p), Normalized(path))
    ELSE \/ p = basename(path)
         \/ p = Normalized(path)
         \/ IsSuffix(p, Normalized(path))

sExampleEnvPattern == <<"*",".","e","x","a","m","p","l","e">> \o sENV

\* C13: a path is blacklisted exactly when some stored blacklist pattern
\* matches it (a literal one: the bare name, the normalized path or a suffix
\* of it; a wildcard one: the whole bare name or the whole normalized path);
\* "*.example.env" blacklists public.example.env and not public.env; an
\* empty blacklist blacklists nothing
C13_Blacklist ==
  LET blacklist == getBlacklistedFiles(config)
  IN /\ \A d \in FileDocs :
          Blacklisted(d) <=>
            \E i \in 1..Len(blacklist) : PatternBlacklists(blacklist[i], fsPath(d))
     /\ blacklist = <<>> => \A d \in FileDocs : ~Blacklisted(d)
     /\ blacklist = << sExampleEnvPattern >> =>
          /\ basename(fsPath("p1")) = sPublic \o <<".","e","x","a","m","p","l","e">> \o sENV
          /\ basename(fsPath("p2")) = sPublic \o sENV
          /\ Blacklisted("p1")
          /\ ~Blacklisted("p2")

\* "*.example.env" is the blacklist, public.example.env is shown and bare and
\* public.env is rendered
C13_Witness ==
  /\ getBlacklistedFiles(config) = << sExampleEnvPattern >>
  /\ docState["p1"] = "visible" /\ decorations["p1"] = NoDecorations
  /\ Blacklisted("p1")
  /\ decorations["p2"] # NoDecorations

----------------------------------------------------------------------------
(* The parser on any line: the first line of d1 is any string made of at    *)
(* most MaxPieces pieces; the document is then opened and rendered.         *)

MaxPieces == 4

Pieces ==
  { <<"e","x","p","o","r","t"," ">>, <<"A">>, <<"1">>, <<"=">>, <<" ">>,
    <<"#">>, <<"/">>, <<"-">> }

RECURSIVE LinesOf(_)
LinesOf(n) ==
  IF n = 0 THEN { <<>> }
  ELSE LinesOf(n - 1) \cup { p \o l : p \in Pieces, l \in LinesOf(n - 1) }

lnApiKey ==
  <<"A","P","I","_","K","E","Y","=","s","e","c","r","e","t","1","2","3">>

\* The two lines of the documentation of parseLine
ExampleLines == { lnApiKey, <<" "," ">> \o lnApiKey \o <<" "," ">> }

ProbeLines == LinesOf(MaxPieces) \cup ExampleLines

InitParse ==
  /\ config = CfgNone
  /\ enabledPatternCache = buildEnabledCache(config)
  /\ blacklistCache = buildBlacklistCache(config)
  /\ \E l \in ProbeLines : text = [d \in Docs |-> IF d = "d1" THEN <<l, lnA>> ELSE <<lnB>>]
  /\ docState = [d \in Docs |-> "closed"]
  /\ revealedValues = EmptyMap
  /\ timers = <<>>
  /\ enabled = TRUE
  /\ decorations = [d \in Docs |-> NoDecorations]
  /\ disposed = FALSE
  /\ last = Idle

NextParse ==
  \/ \E shown \in BOOLEAN : handleDocumentOpen("d1", shown)
  \/ handleEditorChange("d1")

SpecParse == InitParse /\ [][NextParse]_vars

\* The declarations parseLine finds in the lines of d
ParsedLines(d) ==
  { <<text[d][i], parseLine(text[d][i], i - 1)[1]>> :
      i \in { j \in 1..Len(text[d]) : parseLine(text[d][j], j - 1) # <<>> } }

IsIdentifier(key) ==
  /\ key # <<>>
  /\ Head(key) \in Letters \cup {"_"}
  /\ \A i \in 1..Len(key) : key[i] \in Letters \cup Digits \cup {"_"}

\* C14: every declaration parseLine returns has
\* 0 <= keyStart < keyEnd <= valueStart <= valueEnd <= length of the line,
\* an identifier for key and a non-empty value
C14_Spans ==
  \A d \in Docs : \A p \in ParsedLines(d) :
    LET lineText == p[1]
        v == p[2]
    IN /\ 0 <= v.keyStart
       /\ v.keyStart < v.keyEnd
       /\ v.keyEnd <= v.valueStart
       /\ v.valueStart <= v.valueEnd
       /\ v.valueEnd <= Len(lineText)
       /\ IsIdentifier(v.key)
       /\ v.value # <<>>

\* A rendered declaration whose key is indented and whose value ends before
\* the end of the line
C14_Witness ==
  /\ decorations["d1"].mask # <<>>
  /\ \E p \in ParsedLines("d1") :
       /\ p[2].line = 0
       /\ p[2].keyStart > 0
       /\ p[2].valueEnd < Len(p[1])
       /\ decorations["d1"].mask[1].range =
            [line |-> 0, start |-> p[2].valueStart, end |-> p[2].valueEnd]

\* The lines the parser is said to skip, on the trimmed text t of the line
Rejected(lineText) ==
  LET t == trim(lineText)
      hasEquals == \E n \in 1..Len(t) : t[n] = "="
      firstEquals == CHOOSE n \in 1..Len(t) :
                       t[n] = "=" /\ \A m \in 1..(n - 1) : t[m] # "="
  IN \/ t = <<>>
     \/ (Len(t) >= 1 /\ t[1] = "#")
     \/ (Len(t) >= 2 /\ t[1] = "/" /\ t[2] = "/")
     \/ (Len(t) >= 7 /\ SubSeq(t, 1, 7) = <<"e","x","p","o","r","t"," ">>)
     \/ ~hasEquals
     \/ (hasEquals /\ firstEquals = Len(t))
     \/ (hasEquals /\ ~IsIdentifier(trim(SubSeq(t, 1, firstEquals - 1))))

\* C15: parseLine returns no declaration for a line whose trimmed text is
\* empty, starts with "#", "//" or "export ", has no "=", has nothing after
\* its first "=" or has a key that is not an identifier ("API-KEY=1"); it returns
\* a declaration for every other line
C15_Rejections ==
  /\ \A d \in Docs : \A i \in 1..Len(text[d]) :
       (parseLine(text[d][i], i - 1) = <<>>) <=> Rejected(text[d][i])
  /\ parseLine(<<"A","P","I","-","K","E","Y","=","1">>, 0) = <<>>

\* d1 is rendered: its second line is masked, its first line, a key with a
\* "-" before "=" and a value, is not
C15_Witness ==
  /\ Len(decorations["d1"].mask) = 1
  /\ decorations["d1"].mask[1].range.line = 1
  /\ LET t == text["d1"][1]
     IN /\ Len(t) = 4
        /\ t[1] = "A" /\ t[2] = "-" /\ t[3] = "=" /\ t[4] = "1"

----------------------------------------------------------------------------
(* The mask text: any stored mask character, strategy and fixed length; d1  *)
(* holds a value of one character and one of nine.                         *)

MaxConfiguredLength == 102

lnHost ==
  <<"D","B","_","H","O","S","T","=","l","o","c","a","l","h","o","s","t">>

\* eb_maskingCharacter as stored (<<>>: not set, << v >>: set to v)
CharacterChoices == { <<>>, << <<>> >>, << <<"*">> >>, << <<"a","b">> >> }

StrategyChoices == { <<>>, << "eb_fixedLength" >>, << "eb_proportionalLength" >> }

FixedLengthChoices == { <<>> } \cup { << n >> : n \in (-1)..MaxConfiguredLength }

MaskSettings ==
  { Stored(Stored(Stored(EmptyMap, "eb_maskingCharacter", c),
                  "eb_maskingLengthStrategy", s),
           "eb_fixedMaskLength", n) :
      c \in CharacterChoices, s \in StrategyChoices, n \in FixedLengthChoices }

InitMask ==
  /\ config \in MaskSettings
  /\ enabledPatternCache = buildEnabledCache(config)
  /\ blacklistCache = buildBlacklistCache(config)
  /\ text = [d \in Docs |-> IF d = "d1" THEN <<lnA, lnHost>> ELSE <<lnB>>]
  /\ docState = [d \in Docs |-> "closed"]
  /\ revealedValues = EmptyMap
  /\ timers = <<>>
  /\ enabled = TRUE
  /\ decorations = [d \in Docs |-> NoDecorations]
  /\ disposed = FALSE
  /\ last = Idle

NextMask ==
  \/ \E d \in Docs, shown \in BOOLEAN : handleDocumentOpen(d, shown)
  \/ \E d \in Docs : handleEditorChange(d)

SpecMask == InitMask /\ [][NextMask]_vars

\* The masks shown, each with the value it hides
ShownMasks ==
  UNION { { <<decorations[d].mask[p[1]].contentText, Declarations(d)[p[2]].value>> :
              p \in { q \in (1..Len(decorations[d].mask)) \X (1..Len(Declarations(d))) :
                        decorations[d].mask[q[1]].range.line = Declarations(d)[q[2]].line } } :
          d \in Docs }

FixedStrategy ==
  IF "eb_maskingLengthStrategy" \in DOMAIN config
    THEN config["eb_maskingLengthStrategy"] = "eb_fixedLength"
    ELSE TRUE

\* C16: the mask of a value is as long as the value under the proportional
\* strategy (nine characters for "localhost") and, under the fixed strategy,
\* as long as the stored length n whenever 5 <= n <= 100, whatever the value
C16_MaskLength ==
  \A m \in ShownMasks :
    /\ ~FixedStrategy => Len(m[1]) = Len(m[2])
    /\ (/\ FixedStrategy
        /\ "eb_fixedMaskLength" \in DOMAIN config
        /\ config["eb_fixedMaskLength"] \in 5..100)
         => Len(m[1]) = config["eb_fixedMaskLength"]

\* Both lines of d1, a value of one character and one of nine, are masked
\* under the fixed strategy with a stored length of 100
C16_Witness ==
  /\ Len(decorations["d1"].mask) = 2
  /\ \E m \in ShownMasks : Len(m[2]) = 9 /\ Len(m[1]) = 100
  /\ \E m \in ShownMasks : Len(m[2]) = 1 /\ Len(m[1]) = 100
  /\ FixedStrategy
  /\ "eb_fixedMaskLength" \in DOMAIN config
  /\ config["eb_fixedMaskLength"] = 100

StoredFixedLength == config["eb_fixedMaskLength"]

FixedWithStoredLength == FixedStrategy /\ "eb_fixedMaskLength" \in DOMAIN config

\* C17 as stated: under the fixed strategy the mask is as long as the stored
\* length brought into 5..100 (5 for a smaller one, 100 for a larger one)
C17_Clamped ==
  FixedWithStoredLength =>
    \A m \in ShownMasks :
      Len(m[1]) = IF StoredFixedLength < 5 THEN 5
                  ELSE IF StoredFixedLength > 100 THEN 100
                  ELSE StoredFixedLength

\* C17 as amended: under the fixed strategy the mask is as long as the stored
\* length when that lies in 5..100, and 8 characters long (the default
\* length) when it is smaller than 5 or larger than 100
C17_DefaultOutOfRange ==
  FixedWithStoredLength =>
    \A m \in ShownMasks :
      Len(m[1]) = IF StoredFixedLength < 5 \/ StoredFixedLength > 100 THEN 8
                  ELSE StoredFixedLength

\* A stored length of 101 under the fixed strategy, and d1 rendered
C17_Witness ==
  /\ FixedWithStoredLength
  /\ StoredFixedLength = 101
  /\ Len(decorations["d1"].mask) = 2
  /\ \E m \in ShownMasks : Len(m[1]) = 8

\* The character every mask must be made of: the stored one when it is one
\* character long, the default one otherwise
ExpectedCharacter ==
  IF "eb_maskingCharacter" \in DOMAIN config
    THEN IF Len(config["eb_maskingCharacter"]) = 1
           THEN config["eb_maskingCharacter"][1]
           ELSE BULLET[1]
    ELSE BULLET[1]

\* C18: the mask character is the stored one when it is exactly one
\* character long and the default one otherwise; every mask is made of copies
\* of that one character and is never empty
C18_MaskCharacter ==
  /\ getMaskingCharacter(config) = << ExpectedCharacter >>
  /\ \A m \in ShownMasks :
       /\ m[1] # <<>>
       /\ \A i \in 1..Len(m[1]) : m[1][i] = ExpectedCharacter

\* A stored mask string of two characters, or an empty one, and d1 rendered
\* with the default character
C18_Witness ==
  /\ "eb_maskingCharacter" \in DOMAIN config
  /\ Len(config["eb_maskingCharacter"]) # 1
  /\ Len(decorations["d1"].mask) = 2
  /\ \A m \in ShownMasks : m[1] # <<>> /\ m[1][1] = BULLET[1]

----------------------------------------------------------------------------
(* Rendering and timers of the controller (Spec)                           *)

\* C19: rendering a document twice in a row, with its text, the reveal
\* state, the settings and the gate unchanged, sets the same two lists as
\* rendering it once, and neither render changes a reveal entry or a timer
C19_RenderIdempotent ==
  \A d \in Docs :
    LET once == processEditor(enabled, config, State, d)
        twice == processEditor(enabled, config, once, d)
    IN /\ twice.dec = once.dec
       /\ once.rv = revealedValues /\ twice.rv = revealedValues
       /\ once.tm = timers /\ twice.tm = timers
       /\ once.txt = text /\ twice.txt = text

\* A rendered document with a masked line, a revealed line and a timer
\* pending, masking enabled
C19_Witness ==
  \E d \in Docs :
    /\ enabled /\ docState[d] = "visible" /\ Eligible(d)
    /\ decorations[d].mask # <<>> /\ decorations[d].reveal # <<>>
    /\ timers # <<>>
    /\ decorations[d] = processEditor(enabled, config, State, d).dec[d]

\* The entries of the current reveal maps that hold the handle id
OwnersOf(id) ==
  { e \in UNION { {<<d, l>> : l \in DOMAIN revealedValues[d]} :
                    d \in DOMAIN revealedValues } :
      revealedValues[e[1]][e[2]].timeout = id }

\* C20: every live timer is the handle held by exactly one entry of the
\* current reveal map of its document (the entry of its line); no timer is
\* live whose entry was overwritten or removed or whose map was dropped
C20_TimerOwnership ==
  \A i \in 1..Len(timers) :
    /\ ~timers[i].stale
    /\ OwnersOf(timers[i].id) = { <<timers[i].doc, timers[i].line>> }

\* The timers of tm created for line l of d
TimersOfLine(tm, d, l) ==
  { tm[i].id : i \in { j \in 1..Len(tm) :
                         tm[j].doc = d /\ tm[j].line = l /\ ~tm[j].stale } }

\* C21: toggleValueVisibility on a masked line creates its entry, with a new
\* timer when the delay read at that moment is > 0 and with none when it is
\* 0; on a revealed line it clears the timer of the entry, if it has one, and
\* removes the entry; either way the document is rendered again
C21_Toggle ==
  \A d \in Docs :
    (docState[d] = "visible" /\ Eligible(d) /\ enabled) =>
      \A i \in 1..Len(Declarations(d)) :
        LET v == Declarations(d)[i]
            delay == getAutoHideDelay(config)
        IN ((~HasEntry(d, v.line) /\ delay > 0) => Len(timers) < MaxTimers) =>
             LET R == toggleValueVisibility(enabled, config, State, d, v)
             IN /\ R.dec[d] = applyMasking(config, R.rv, d, Declarations(d))
                /\ IF ~HasEntry(d, v.line)
                     THEN /\ InMap(R.rv, d, v.line)
                          /\ delay > 0 =>
                               /\ R.rv[d][v.line].timeout \notin HandlesOf(timers)
                               /\ HandlesOf(R.tm) =
                                    HandlesOf(timers) \cup {R.rv[d][v.line].timeout}
                               /\ R.rv[d][v.line].timeout \in TimersOfLine(R.tm, d, v.line)
                          /\ delay = 0 =>
                               /\ R.rv[d][v.line].timeout = 0
                               /\ R.tm = timers
                     ELSE /\ ~InMap(R.rv, d, v.line)
                          /\ HandlesOf(R.tm) =
                               HandlesOf(timers) \ {revealedValues[d][v.line].timeout}

\* A toggle has just revealed a line with a timer pending, which a second
\* toggle of that line would clear
C21_Witness ==
  /\ last.op = "reveal"
  /\ HasEntry(last.doc, last.line)
  /\ revealedValues[last.doc][last.line].timeout
       \in TimersOfLine(timers, last.doc, last.line)
  /\ enabled /\ docState[last.doc] = "visible"

\* C22: a timer never masks a line that another operation revealed: when a
\* timer callback removes a reveal entry, that timer is the one the entry
\* holds, created by the toggle that created the entry
C22_OnlyOwnTimerRemoves ==
  [][\A d \in Docs, l \in 0..(MaxLines - 1) :
       (last' = Did("fire", d, l) /\ HasEntry(d, l))
         => revealedValues[d][l].timeout \in HandlesOf(timers) \ HandlesOf(timers')]_vars

----------------------------------------------------------------------------
(* Documents that are edited: the host changes the text of a document (the  *)
(* extension has no listener for it); clicks, editor changes and the two    *)
(* commands then act on the text as it is.                                  *)

lnAShifted == <<" ">> \o lnA

EditTexts ==
  { <<lnA, lnB>>, <<lnAShifted, lnB>>, <<lnB, lnA>>, << <<"#">>, lnA >>, <<lnA>> }

\* The user types in the editor of d
editDocument(d, t) ==
  /\ ~disposed
  /\ docState[d] = "visible"
  /\ t # text[d]
  /\ text' = [text EXCEPT ![d] = t]
  /\ last' = Idle
  /\ UNCHANGED <<CfgVars, docState, revealedValues, timers, enabled,
                 decorations, disposed>>

InitEdit ==
  /\ config = CfgNone
  /\ enabledPatternCache = buildEnabledCache(config)
  /\ blacklistCache = buildBlacklistCache(config)
  /\ text = InitialText
  /\ docState = [d \in Docs |-> "visible"]
  /\ revealedValues = EmptyMap
  /\ timers = <<>>
  /\ enabled = TRUE
  /\ decorations =
       processAllOpenEditors(
         TRUE, config, buildBlacklistCache(config), docState,
         [rv |-> EmptyMap, tm |-> <<>>, dec |-> [d \in Docs |-> NoDecorations],
          txt |-> InitialText]).dec
  /\ disposed = FALSE
  /\ last = Idle

NextEdit ==
  \/ \E t \in EditTexts : editDocument("d1", t)
  \/ \E d \in Docs : handleEditorChange(d)
  \/ \E sel \in ((0..(MaxLines - 1)) \X (0..MaxLineLength)) \cup {Range} :
        handleSelectionChange("d1", sel)
  \/ revealAllValues("d1")
  \/ maskAllValues("d1")
  \/ toggleMasking

SpecEdit == InitEdit /\ [][NextEdit]_vars

Count(seq, x) == Cardinality({ i \in 1..Len(seq) : seq[i] = x })

ValueSpan(v) == [line |-> v.line, start |-> v.valueStart, end |-> v.valueEnd]

\* C23: a render of a document to process, with masking enabled, splits the
\* declarations of a fresh parse of its text: one whose line has a reveal
\* entry is once in the reveal list and not in the mask list, any other is
\* once in the mask list with its mask text and not in the reveal list, and
\* every span is the one of the fresh parse
C23_RenderPartition ==
  \A d \in Docs :
    (enabled /\ Eligible(d)) =>
      LET fresh == parseDocument(text[d])
          R == processEditor(enabled, config, State, d).dec[d]
      IN /\ Len(R.mask) + Len(R.reveal) = Len(fresh)
         /\ \A i \in 1..Len(fresh) :
              IF HasEntry(d, fresh[i].line)
                THEN /\ Count(R.reveal, ValueSpan(fresh[i])) = 1
                     /\ \A j \in 1..Len(R.mask) : R.mask[j].range.line # fresh[i].line
                ELSE /\ Count(R.mask,
                              [range |-> ValueSpan(fresh[i]),
                               contentText |-> generateMask(config, fresh[i].value)]) = 1
                     /\ \A j \in 1..Len(R.reveal) : R.reveal[j].line # fresh[i].line

\* d1 was edited after a line was revealed and rendered again: the reveal
\* list holds the span of the new text, not the one the entry stores, next
\* to a masked line
C23_Witness ==
  /\ enabled
  /\ decorations["d1"].mask # <<>>
  /\ decorations["d1"] = processEditor(enabled, config, State, "d1").dec["d1"]
  /\ \E i \in 1..Len(Declarations("d1")) :
       LET v == Declarations("d1")[i]
       IN /\ HasEntry("d1", v.line)
          /\ revealedValues["d1"][v.line].startChar # v.valueStart
          /\ Count(decorations["d1"].reveal, ValueSpan(v)) = 1

\* The triggers delivered for the editor of d: a click at a position, the
\* two commands and an editor change
Triggers(d) ==
  { [kind |-> "click", line |-> pos[1], character |-> pos[2]] : pos \in Positions(d) }
    \cup { [kind |-> k, line |-> -1, character |-> -1] :
             k \in {"revealAll", "maskAll", "editorChange"} }

\* What the handler of trigger t does to S
Deliver(S, d, t) ==
  IF ~Eligible(d) THEN S
  ELSE CASE t.kind = "click" ->
              IF enabled
                THEN handleClick(enabled, config, S, d, t.line, t.character)
                ELSE S
         [] t.kind = "revealAll" -> revealAll(enabled, config, S, d)
         [] t.kind = "maskAll" -> hideAllValuesForFile(enabled, config, S, d)
         [] OTHER -> processEditor(enabled, config, S, d)

IsClickOnValue(d, t) == t.kind = "click" /\ OnValue(d, t.line, t.character)

\* The lines of d that S holds revealed
RevealedLines(S, d) == IF d \in DOMAIN S.rv THEN DOMAIN S.rv[d] ELSE {}

\* C24 as stated: two triggers delivered in one order or in the other end
\* in the same rendered lists
C24_OrderIndependent ==
  \A d \in Docs : \A t1 \in Triggers(d), t2 \in Triggers(d) :
    docState[d] = "visible" =>
      Deliver(Deliver(State, d, t1), d, t2).dec
        = Deliver(Deliver(State, d, t2), d, t1).dec

\* C24 as amended: two triggers delivered in one order or in the other end
\* in the same rendered lists whenever they end with the same lines
\* revealed, and clicks on the values of two different lines do so in either
\* order
C24_SameStateSameRender ==
  \A d \in Docs : \A t1 \in Triggers(d), t2 \in Triggers(d) :
    docState[d] = "visible" =>
      LET A == Deliver(Deliver(State, d, t1), d, t2)
          B == Deliver(Deliver(State, d, t2), d, t1)
      IN /\ RevealedLines(A, d) = RevealedLines(B, d) => A.dec = B.dec
         /\ (IsClickOnValue(d, t1) /\ IsClickOnValue(d, t2) /\ t1.line # t2.line)
              => (RevealedLines(A, d) = RevealedLines(B, d) /\ A.dec = B.dec)

\* Both lines of d1 are revealed, the second by the last click: the two
\* clicks were delivered one after the other
C24_Witness ==
  /\ enabled
  /\ Cardinality({ t \in Triggers("d1") : IsClickOnValue("d1", t) }) >= 2
  /\ Len(decorations["d1"].reveal) = 2
  /\ last.op = "reveal" /\ last.doc = "d1"

----------------------------------------------------------------------------
(* Wildcard patterns: stored lists of patterns with "*" and "?", and files  *)
(* named a.env, aXenv and ab.env.                                          *)

GlobDocs == {"g1", "g2", "g3"}

GlobPatterns ==
  { <<"*",".","e","n","v">>, <<"a","?","e","n","v">>, <<"?",".","e","n","v">>,
    <<"a",".","*">>, <<"*","X","*">> }

GlobSettings ==
  { Stored(Stored(EmptyMap, "eb_enabledFilePatterns", << <<p>> >>),
           "eb_blacklistedFiles", b) :
      p \in GlobPatterns,
      b \in { <<>>, << << <<"?","?",".","e","n","v">> >> >> } }

InitGlob ==
  /\ config \in GlobSettings
  /\ enabledPatternCache = buildEnabledCache(config)
  /\ blacklistCache = buildBlacklistCache(config)
  /\ text = [d \in GlobDocs |-> <<lnB>>]
  /\ docState = [d \in GlobDocs |-> "closed"]
  /\ revealedValues = EmptyMap
  /\ timers = <<>>
  /\ enabled = TRUE
  /\ decorations = [d \in GlobDocs |-> NoDecorations]
  /\ disposed = FALSE
  /\ last = Idle

NextGlob ==
  \/ \E d \in GlobDocs, shown \in BOOLEAN : handleDocumentOpen(d, shown)
  \/ \E d \in GlobDocs : handleEditorChange(d)

SpecGlob == InitGlob /\ [][NextGlob]_vars

\* The whole of s matches the glob p: "*" is any run of characters, "?" any
\* one character, any other character itself
RECURSIVE GlobMatch(_, _)
GlobMatch(p, s) ==
  IF p = <<>> THEN s = <<>>
  ELSE IF Head(p) = "*"
    THEN GlobMatch(Tail(p), s) \/ (s # <<>> /\ GlobMatch(p, Tail(s)))
    ELSE s # <<>> /\ (Head(p) = "?" \/ Head(p) = Head(s)) /\ GlobMatch(Tail(p), Tail(s))

\* C25: a pattern with "*" or "?" matches a name exactly when the whole name
\* matches it as a glob in which every other character, "." included, stands
\* for itself ("*.env" matches a.env and not aXenv); so only files whose
\* name matches an enabled pattern in that sense are rendered
C25_GlobMatching ==
  LET patterns == getEnabledFilePatterns(config)
      blacklist == getBlacklistedFiles(config)
  IN \A d \in GlobDocs :
       /\ \A i \in 1..Len(patterns) :
            isWildcard(patterns[i]) =>
              (regexTest(enabledPatternCache[patterns[i]], getFileName(d))
                 <=> GlobMatch(patterns[i], getFileName(d)))
       /\ \A i \in 1..Len(blacklist) :
            isWildcard(blacklist[i]) =>
              (regexTest(blacklistCache[blacklist[i]], getFileName(d))
                 <=> GlobMatch(blacklist[i], getFileName(d)))
       /\ decorations[d] # NoDecorations =>
            \E i \in 1..Len(patterns) :
              IF isWildcard(patterns[i])
                THEN GlobMatch(patterns[i], getFileName(d))
                ELSE patterns[i] = getFileName(d)

----------------------------------------------------------------------------
(* The parser on any line (SpecParse), continued                           *)

\* C26: the spans of a declaration are positions in the line as it is, not
\* trimmed: the key is at [keyStart, keyEnd), the character before
\* valueStart is the first "=" of the line, the value is at
\* [valueStart, valueEnd) and valueEnd = valueStart + value.length;
\* "API_KEY=secret123" gives 0, 7, 8, 17 and the same line between two
\* blanks on either side gives 2, 9, 10, 19
C26_SpansIndexLine ==
  \A d \in Docs : \A p \in ParsedLines(d) :
    LET lineText == p[1]
        v == p[2]
    IN /\ SubSeq(lineText, v.keyStart + 1, v.keyEnd) = v.key
       /\ v.valueStart >= 1
       /\ lineText[v.valueStart] = "="
       /\ \A j \in 1..(v.valueStart - 1) : lineText[j] # "="
       /\ v.valueEnd = v.valueStart + Len(v.value)
       /\ SubSeq(lineText, v.valueStart + 1, v.valueEnd) = v.value
       /\ lineText = lnApiKey =>
            /\ v.keyStart = 0 /\ v.keyEnd = 7
            /\ v.valueStart = 8 /\ v.valueEnd = 17
       /\ lineText = <<" "," ">> \o lnApiKey \o <<" "," ">> =>
            /\ v.keyStart = 2 /\ v.keyEnd = 9
            /\ v.valueStart = 10 /\ v.valueEnd = 19

\* The line "  API_KEY=secret123  " is rendered: its mask covers 10 to 19
C26_Witness ==
  /\ text["d1"][1] = <<" "," ">> \o lnApiKey \o <<" "," ">>
  /\ Len(decorations["d1"].mask) = 2
  /\ decorations["d1"].mask[1].range = [line |-> 0, start |-> 10, end |-> 19]

----------------------------------------------------------------------------
(* Configuration changes of the controller (Spec)                          *)

\* C27: a change of a setting of the section MaskingConfig reads
\* (EXTENSION_NAME) makes the listener run updateConfiguration: after the
\* step the snapshot holds the new settings, both caches are compiled from
\* them and every visible document to process under them is rendered with
\* them
C27_OwnSectionChangeApplied ==
  [][\A stored \in Settings :
       onDidChangeConfiguration(EXTENSION_NAME, stored)
         => /\ config' = stored
            /\ enabledPatternCache' = buildEnabledCache(stored)
            /\ blacklistCache' = buildBlacklistCache(stored)
            /\ \A d \in Docs :
                 (/\ enabled
                  /\ docState[d] = "visible"
                  /\ processesFile(stored, buildBlacklistCache(stored), d))
                   => decorations'[d] =
                        applyMasking(stored, revealedValues', d,
                                     parseText(text[d]))]_vars

----------------------------------------------------------------------------
(* The compiled patterns over reloads (SpecReload)                         *)

\* new EnvFileMasker() for any stored lists of patterns, no document open
InitReload ==
  /\ config \in FileSettings
  /\ enabledPatternCache = buildEnabledCache(config)
  /\ blacklistCache = buildBlacklistCache(config)
  /\ text = InitialText
  /\ docState = [d \in Docs |-> "closed"]
  /\ revealedValues = EmptyMap
  /\ timers = <<>>
  /\ enabled = TRUE
  /\ decorations = [d \in Docs |-> NoDecorations]
  /\ disposed = FALSE
  /\ last = Idle

NextReload ==
  \/ \E d \in Docs, shown \in BOOLEAN : handleDocumentOpen(d, shown)
  \/ \E d \in Docs : handleEditorChange(d)
  \/ \E d \in Docs : handleDocumentClose(d)
  \/ \E section \in {EXTENSION_NAME, LISTENED_SECTION}, stored \in FileSettings :
        onDidChangeConfiguration(section, stored)

SpecReload == InitReload /\ [][NextReload]_vars

\* The wildcard patterns of a list
WildcardsOf(patterns) ==
  {patterns[i] : i \in {j \in 1..Len(patterns) : isWildcard(patterns[j])}}

\* C28: after construction and after every reload each cache holds a matcher,
\* the one compiled from the pattern, for every wildcard pattern of the
\* current enabled list (of the current blacklist) and for no other pattern,
\* so that no lookup of a wildcard pattern of the current list misses
C28_CachesMatchLists ==
  /\ DOMAIN enabledPatternCache = WildcardsOf(getEnabledFilePatterns(config))
  /\ DOMAIN blacklistCache = WildcardsOf(getBlacklistedFiles(config))
  /\ \A p \in DOMAIN enabledPatternCache :
       enabledPatternCache[p] = regexSource(p)
  /\ \A p \in DOMAIN blacklistCache : blacklistCache[p] = regexSource(p)

\* After a reload: .env was rendered under settings that processed it and
\* the current blacklist holds the wildcard pattern /w/*, which excludes it;
\* both caches hold a matcher
C28_Witness ==
  /\ decorations["d1"].mask # <<>>
  /\ <<"/","w","/","*">> \in DOMAIN blacklistCache
  /\ enabledPatternCache # EmptyMap
  /\ ~Eligible("d1")

----------------------------------------------------------------------------
(* MaskingConfig writing settings (SpecSettings)                           *)

\* The settings getConfiguration(EXTENSION_NAME) can hold for the extension
SettingKeys ==
  {"eb_maskingCharacter", "eb_maskingLengthStrategy", "eb_fixedMaskLength",
   "eb_autoHideDelay", "eb_blacklistedFiles", "eb_enabledFilePatterns"}

\* The keys resetToDefaults writes
ResetKeys ==
  {"eb_maskingCharacter", "eb_maskingLength", "eb_fixedMaskLength",
   "eb_autoHideDelay", "eb_blacklistedFiles", "eb_enabledFilePatterns"}

\* A value other than the default for each key
CustomValue(key) ==
  CASE key = "eb_maskingCharacter" -> <<"*">>
    [] key = "eb_maskingLengthStrategy" -> "eb_proportionalLength"
    [] key = "eb_maskingLength" -> "eb_proportionalLength"
    [] key = "eb_fixedMaskLength" -> 20
    [] key = "eb_autoHideDelay" -> 50
    [] key = "eb_blacklistedFiles" -> << <<"v","/">> \o sENV >>
    [] key = "eb_enabledFilePatterns" -> << <<"*">> \o sENV >>

\* What the host may hold for the section: any of the settings set or not
UserSettings == {[k \in S |-> CustomValue(k)] : S \in SUBSET SettingKeys}

\* config.update(key, value): value is <<>> for undefined, which removes the
\* setting, and <<v>> for the value v
written(stored, key, value) ==
  IF value = <<>> THEN MapDelete(stored, key) ELSE MapSet(stored, key, value[1])

\* What a call of MaskingConfig left behind: the writes that failed, the keys
\* showErrorMessage was called for and whether the promise was rejected
SettingsDone(op, failedWrites, errorMessages) ==
  [op |-> op, doc |-> NoDoc, line |-> -1, failedWrites |-> failedWrites,
   errorMessages |-> errorMessages, rejected |-> FALSE]

\* reload(): the snapshot is read again from the host, both caches rebuilt
reload(stored) ==
  /\ config' = stored
  /\ enabledPatternCache' = buildEnabledCache(stored)
  /\ blacklistCache' = buildBlacklistCache(stored)

\* updateSetting that reloads whether the write succeeded or not
updateSettingReloadingAlways(key, value, stored, writeOk) ==
  /\ reload(IF writeOk THEN written(stored, key, value) ELSE stored)
  /\ last' = SettingsDone("updateSetting", IF writeOk THEN {} ELSE {key},
                          IF writeOk THEN {} ELSE {key})
  /\ UNCHANGED <<text, docState, revealedValues, timers, enabled,
                 decorations, disposed>>

\* updateSetting(key, value) while the host holds `stored`; the write
\* succeeds or is rejected (writeOk)
updateSetting(key, value, stored, writeOk) ==
  /\ IF writeOk
       THEN reload(written(stored, key, value))
       ELSE UNCHANGED CfgVars
  /\ last' = SettingsDone("updateSetting", IF writeOk THEN {} ELSE {key},
                          IF writeOk THEN {} ELSE {key})
  /\ UNCHANGED <<text, docState, revealedValues, timers, enabled,
                 decorations, disposed>>

RECURSIVE writtenAll(_, _)
writtenAll(stored, keys) ==
  IF keys = {} THEN stored
  ELSE LET k == CHOOSE x \in keys : TRUE
       IN writtenAll(written(stored, k, <<>>), keys \ {k})

\* resetToDefaults() once Promise.all has resolved: one updateSetting(key,
\* undefined) for each of the six keys, of which those in `failed` are
\* rejected by the host; the reload after the last write that succeeded reads
\* all of them
resetToDefaults(stored, failed) ==
  /\ IF failed = ResetKeys
       THEN UNCHANGED CfgVars
       ELSE reload(writtenAll(stored, ResetKeys \ failed))
  /\ last' = SettingsDone("resetToDefaults", failed, failed)
  /\ UNCHANGED <<text, docState, revealedValues, timers, enabled,
                 decorations, disposed>>

\* new MaskingConfig() for any settings of the user, then calls of
\* updateSetting and resetToDefaults
InitSettings ==
  /\ config \in UserSettings
  /\ enabledPatternCache = buildEnabledCache(config)
  /\ blacklistCache = buildBlacklistCache(config)
  /\ text = InitialText
  /\ docState = [d \in Docs |-> "closed"]
  /\ revealedValues = EmptyMap
  /\ timers = <<>>
  /\ enabled = TRUE
  /\ decorations = [d \in Docs |-> NoDecorations]
  /\ disposed = FALSE
  /\ last = Idle

\* exportSettings(): what the getters return, under these names
exportSettings(cfg) ==
  [maskingCharacter |-> getMaskingCharacter(cfg),
   maskingLength |-> getMaskingLengthStrategy(cfg),
   fixedMaskLength |-> getFixedMaskLength(cfg),
   autoHideDelay |-> getAutoHideDelay(cfg),
   blacklistedFiles |-> getBlacklistedFiles(cfg),
   enabledFilePatterns |-> getEnabledFilePatterns(cfg)]

\* The keys importSettings takes from the object it is given
validKeys ==
  {"eb_maskingCharacter", "eb_maskingLength", "eb_fixedMaskLength",
   "eb_autoHideDelay", "eb_blacklistedFiles", "eb_enabledFilePatterns"}

\* The store after updateSetting(key, settings[key]) for each of the keys
RECURSIVE importedAll(_, _, _)
importedAll(stored, settings, keys) ==
  IF keys = {} THEN stored
  ELSE LET k == CHOOSE x \in keys : TRUE
       IN importedAll(written(stored, k, <<settings[k]>>), settings, keys \ {k})

\* What a call of importSettings left behind, with the object it was given
ImportDone(settings, failed) ==
  [op |-> "importSettings", doc |-> NoDoc, line |-> -1,
   failedWrites |-> failed, errorMessages |-> failed, rejected |-> FALSE,
   settings |-> settings]

\* importSettings(settings) while the host holds `stored`: one awaited
\* updateSetting for every entry whose key is a valid key, of which those in
\* `failed` are rejected by the host; an entry with another key is skipped
importSettings(settings, stored, failed) ==
  LET keys == (DOMAIN settings) \cap validKeys
  IN /\ failed \subseteq keys
     /\ IF keys \ failed = {}
          THEN UNCHANGED CfgVars
          ELSE reload(importedAll(stored, settings, keys \ failed))
     /\ last' = ImportDone(settings, failed)
     /\ UNCHANGED <<text, docState, revealedValues, timers, enabled,
                    decorations, disposed>>

\* Every setting set to a value of the user
AllCustom == [k \in SettingKeys |-> CustomValue(k)]

\* The snapshots an export is taken from
ExportedFrom == {EmptyMap, AllCustom, [eb_autoHideDelay |-> 50]}

\* The objects given to importSettings: exports, and an object written by
\* hand with the keys of the settings
ImportObjects ==
  {exportSettings(c) : c \in ExportedFrom}
    \cup {[k \in validKeys |-> CustomValue(k)]}

NextSettings ==
  \/ \E key \in SettingKeys \cup ResetKeys, stored \in UserSettings,
        writeOk \in BOOLEAN :
       \E value \in {<<>>, <<CustomValue(key)>>} :
         updateSetting(key, value, stored, writeOk)
  \/ \E stored \in UserSettings :
       \E failed \in {{}, ResetKeys} \cup {{k} : k \in ResetKeys} :
         resetToDefaults(stored, failed)
  \/ \E settings \in ImportObjects, stored \in UserSettings :
       \E failed \in {{}, (DOMAIN settings) \cap validKeys} :
         importSettings(settings, stored, failed)

SpecSettings == InitSettings /\ [][NextSettings]_vars

\* C29: when the write of updateSetting fails, an error message is shown for
\* the key, the promise is not rejected, and the snapshot, both caches and
\* everything else of the controller are as before the call
C29_FailedWriteChangesNothing ==
  [][(last'.op = "updateSetting" /\ last'.failedWrites # {})
       => /\ last'.errorMessages = last'.failedWrites
          /\ ~last'.rejected
          /\ UNCHANGED <<config, enabledPatternCache, blacklistCache>>
          /\ UNCHANGED <<text, docState, revealedValues, timers, enabled,
                         decorations, disposed>>]_vars

\* A write of the strategy has failed while the snapshot holds a strategy and
\* a wildcard pattern
C29_Witness ==
  /\ last.op = "updateSetting"
  /\ last.failedWrites = {"eb_maskingLengthStrategy"}
  /\ "eb_maskingLengthStrategy" \in DOMAIN config
  /\ enabledPatternCache # EmptyMap

\* C30: after resetToDefaults() with every write succeeding, each of the six
\* settings reads as its default: masking character, strategy, fixed length,
\* auto-hide delay, blacklist and enabled patterns
C30_ResetReadsDefaults ==
  [][(last'.op = "resetToDefaults" /\ last'.failedWrites = {})
       => /\ getMaskingCharacter(config') = BULLET
          /\ getMaskingLengthStrategy(config') = "eb_fixedLength"
          /\ getFixedMaskLength(config') = DEFAULT_MASKING_LENGTH
          /\ getAutoHideDelay(config') = DEFAULT_AUTO_HIDE_DELAY_MS
          /\ getBlacklistedFiles(config') = <<>>
          /\ getEnabledFilePatterns(config') = DEFAULT_ENABLED_PATTERNS]_vars

----------------------------------------------------------------------------
(* The settings of an installation with nothing configured (SpecMask)      *)

Unconfigured == config = EmptyMap

\* C31 as stated: with nothing configured the character is the bullet, the
\* strategy is the proportional one, the fixed length is 20 and the auto-hide
\* delay is 0, and "DB_HOST=localhost" is masked with 9 characters
C31_DefaultsProportional ==
  Unconfigured =>
    /\ getMaskingCharacter(config) = BULLET
    /\ getMaskingLengthStrategy(config) = "eb_proportionalLength"
    /\ getFixedMaskLength(config) = 20
    /\ getAutoHideDelay(config) = 0
    /\ \A m \in ShownMasks : m[2] = SubSeq(lnHost, 9, 17) => Len(m[1]) = 9

\* C31 as amended: with nothing configured the character is the bullet, the
\* strategy is the fixed one, the fixed length is 8 and the auto-hide delay
\* is 0, and "DB_HOST=localhost" is masked with 8 bullets
C31_DefaultsFixed ==
  Unconfigured =>
    /\ getMaskingCharacter(config) = BULLET
    /\ getMaskingLengthStrategy(config) = "eb_fixedLength"
    /\ getFixedMaskLength(config) = 8
    /\ getAutoHideDelay(config) = 0
    /\ \A m \in ShownMasks :
         m[2] = SubSeq(lnHost, 9, 17) => m[1] = repeat(BULLET, 8)

\* Nothing is configured and the line DB_HOST=localhost of d1 is masked
C31_Witness ==
  /\ Unconfigured
  /\ docState["d1"] = "visible"
  /\ \E i \in 1..Len(decorations["d1"].mask) :
       decorations["d1"].mask[i].range = [line |-> 1, start |-> 8, end |-> 17]

----------------------------------------------------------------------------
(* Commands, edits and reloads of the controller                           *)

\* C32: revealAllValues and maskAllValues called with no active editor, or
\* with an active document that is not a file to process, show a warning
\* message and change no reveal entry, no timer and no decoration of any
\* document
C32_NoActiveFileWarns ==
  [][/\ \A active \in Docs \cup {NoDoc} :
          (/\ (IF active = NoDoc THEN TRUE ELSE ~Eligible(active))
           /\ (revealAllValues(active) \/ maskAllValues(active)))
            => last' = Warned
     /\ last' = Warned
          => UNCHANGED <<revealedValues, timers, decorations, text>>]_vars

\* The warning was shown while a value is revealed with a timer pending
C32_Witness ==
  /\ last = Warned
  /\ \E d \in Docs : HasEntries(d)
  /\ timers # <<>>

\* The declarations, as key and value, that a rendering of the text txt shows
\* revealed
RevealedDeclarations(txt, dec) ==
  LET found == parseDocument(txt)
  IN { <<found[i].key, found[i].value>> :
         i \in { j \in 1..Len(found) :
                   \E k \in 1..Len(dec.reveal) : dec.reveal[k] = ValueSpan(found[j]) } }

\* C33: reveal state follows the value that was revealed: when a rendered
\* document is edited, so that another declaration may come to stand on a
\* revealed line, and rendered again, every declaration rendered as revealed
\* was rendered as revealed before the edit; no value is shown revealed that
\* no click and no reveal-all was aimed at
C33_RevealFollowsValue ==
  \A d \in Docs :
    (/\ enabled /\ Eligible(d) /\ docState[d] = "visible"
     /\ decorations[d] = processEditor(enabled, config, State, d).dec[d])
      => \A t \in EditTexts :
           LET edited == [State EXCEPT !.txt[d] = t]
               after == processEditor(enabled, config, edited, d)
           IN RevealedDeclarations(t, after.dec[d])
                \subseteq RevealedDeclarations(text[d], decorations[d])

\* C34: after a reload that makes a visible document one not to process (its
\* path is now blacklisted, or its name matches no enabled pattern any more)
\* the document carries no mask and no reveal decoration
C34_IneligibleAfterReloadShowsNothing ==
  [][\A d \in Docs :
       (/\ config' # config
        /\ docState[d] = "visible"
        /\ Eligible(d)
        /\ ~processesFile(config', blacklistCache', d))
         => decorations'[d] = NoDecorations]_vars

\* What the controller holds for document d: its reveal entries, its timers
\* and its decorations
PartOf(rv, tm, dec, d) ==
  [entries |-> IF d \in DOMAIN rv THEN rv[d] ELSE EmptyMap,
   timers |-> SelectSeq(tm, LAMBDA t : t.doc = d),
   decorations |-> dec[d]]

\* The step is a click, a reveal-all, a mask-all, a close or a timer callback
\* on document d
OnDocument(d) ==
  \/ \E sel \in ((0..(MaxLines - 1)) \X (0..MaxLineLength)) \cup {Range} :
       handleSelectionChange(d, sel)
  \/ revealAllValues(d)
  \/ maskAllValues(d)
  \/ handleDocumentClose(d)
  \/ \E i \in TimerIds :
       i \in 1..Len(timers) /\ timers[i].doc = d /\ timerFire(i)

\* C35: a click, a toggle of a value, a reveal-all, a mask-all, a close or a
\* timer callback on one document changes no reveal entry, no timer and no
\* decoration of another document
C35_DocumentIsolation ==
  [][\A a \in Docs, b \in Docs :
       ~(/\ a # b
         /\ PartOf(revealedValues', timers', decorations', b)
              # PartOf(revealedValues, timers, decorations, b)
         /\ OnDocument(a))]_vars

\* A value of d1 has just been revealed while d2 holds a revealed value, a
\* pending timer and decorations
C35_Witness ==
  /\ last.op = "reveal" /\ last.doc = "d1"
  /\ HasEntries("d2")
  /\ \E i \in 1..Len(timers) : timers[i].doc = "d2"
  /\ decorations["d2"] # NoDecorations

----------------------------------------------------------------------------
(* Export and import of the settings (SpecSettings)                        *)

\* What the getters of MaskingConfig return on a snapshot
Getters(cfg) ==
  <<getMaskingCharacter(cfg), getMaskingLengthStrategy(cfg),
    getFixedMaskLength(cfg), getAutoHideDelay(cfg), getBlacklistedFiles(cfg),
    getEnabledFilePatterns(cfg)>>

\* C37: importing what exportSettings produced is a round trip: after an
\* export, any change of the settings and an import of the exported object
\* with every write succeeding, each getter returns what it returned when the
\* export was taken
C37_ExportImportRoundTrip ==
  [][(last'.op = "importSettings" /\ last'.failedWrites = {})
       => \A exported \in ExportedFrom :
            last'.settings = exportSettings(exported)
              => Getters(config') = Getters(exported)]_vars

----------------------------------------------------------------------------
(* The auto-hide delay, for any stored delay (SpecDelay)                   *)

\* eb_autoHideDelay as stored: not set, not a number, around 0 and around
\* the largest delay
DelayChoices ==
  { <<>>, <<NaN>>, <<50>> }
    \cup { <<n>> : n \in (-2)..2 }
    \cup { <<n>> : n \in (DEFAULT_MAX_AUTO_HIDE_DELAY_MS - 2)
                           ..(DEFAULT_MAX_AUTO_HIDE_DELAY_MS + 2) }

DelaySettings == { Stored(EmptyMap, "eb_autoHideDelay", c) : c \in DelayChoices }

InitDelay ==
  /\ config \in DelaySettings
  /\ enabledPatternCache = buildEnabledCache(config)
  /\ blacklistCache = buildBlacklistCache(config)
  /\ text = InitialText
  /\ docState = [d \in Docs |-> "closed"]
  /\ revealedValues = EmptyMap
  /\ timers = <<>>
  /\ enabled = TRUE
  /\ decorations = [d \in Docs |-> NoDecorations]
  /\ disposed = FALSE
  /\ last = Idle

NextDelay ==
  \/ \E d \in Docs, shown \in BOOLEAN : handleDocumentOpen(d, shown)
  \/ \E d \in Docs, sel \in ((0..(MaxLines - 1)) \X (0..MaxLineLength)) :
        handleSelectionChange(d, sel)
  \/ \E i \in TimerIds : timerFire(i)

SpecDelay == InitDelay /\ [][NextDelay]_vars

----------------------------------------------------------------------------
(* The two checks of the enabled patterns (SpecReload)                     *)

\* The files the two checks are compared on
NamedDocs == Docs \cup ProbeDocs \cup GlobDocs

\* C39: for every list of enabled patterns and every file name, the check of
\* the enabled patterns inside shouldProcessFile, which compiles each
\* wildcard pattern on the spot, and matchesEnabledPattern, which takes the
\* compiled pattern from the cache, give the same answer after construction
\* and after every reload
C39_CachedEqualsUncached ==
  \A d \in NamedDocs :
    matchesEnabledPattern(config, enabledPatternCache, getFileName(d))
      = shouldProcessFileIgnoringBlacklist(config, blacklistCache, d)

\* After a reload to the enabled pattern *.env: the file a.env matches by
\* the cached expression only, notes does not match
C39_Witness ==
  /\ decorations["d1"].mask # <<>>
  /\ ~Eligible("d1")
  /\ (<<"*">> \o sENV) \in DOMAIN enabledPatternCache
  /\ matchesEnabledPattern(config, enabledPatternCache, getFileName("g1"))
  /\ ~matchesEnabledPattern(config, enabledPatternCache, getFileName("p4"))

----------------------------------------------------------------------------
(* Where the parser finds the key (SpecParse)                              *)

\* The number of blanks a line starts with
RECURSIVE LeadingBlanks(_)
LeadingBlanks(lineText) ==
  IF lineText # <<>> /\ Head(lineText) = " "
    THEN 1 + LeadingBlanks(Tail(lineText))
    ELSE 0

\* C40: for every line that gives a declaration the search for the first
\* occurrence finds the key at the first character of the line that is not a
\* blank, so keyStart is the number of leading blanks, and the "=" it finds
\* is the first "=" of the line, also when the text of the key occurs again
\* in the value
C40_KeyAtFirstNonBlank ==
  \A d \in Docs : \A p \in ParsedLines(d) :
    LET lineText == p[1]
        v == p[2]
    IN /\ v.keyStart = LeadingBlanks(lineText)
       /\ v.valueStart - 1 = indexOf(lineText, <<"=">>)
       /\ v.keyEnd <= v.valueStart - 1

\* The line " A=A", whose key occurs again as its value, is rendered: the
\* key is found at 1 and the value at 3
C40_Witness ==
  /\ text["d1"][1] = <<" ","A","=","A">>
  /\ \E p \in ParsedLines("d1") :
       /\ p[1] = <<" ","A","=","A">>
       /\ p[2].keyStart = 1 /\ p[2].valueStart = 3
  /\ decorations["d1"].mask # <<>>

====
